---------------------------- MODULE Spec2Model ----------------------------
(***************************************************************************)
(* A model of src/PromptExperiment.py: the combinatorial experiment        *)
(* generator.  A PromptExperiment holds a prompt template, a prompt        *)
(* parameter space, a hyperparameter space, a sample count N, one mode per *)
(* space and a seed; run_experiments walks one of four loop nests and      *)
(* returns one flattened record per condition.                             *)
(*                                                                         *)
(* Python values are represented as follows.                               *)
(*   dict used as a parameter space : a sequence of [name, values] records *)
(*       (insertion order is the declared parameter order);                *)
(*   dict used as a binding or a record : a function from key strings;     *)
(*   list : a sequence;   str : a string;   None : <<>>, a value v that    *)
(*       may be None : <<v>>;                                              *)
(*   the process-wide generator of module random : a natural number.       *)
(***************************************************************************)
EXTENDS Integers, Sequences, FiniteSets, TLC

VARIABLES
    rng,        \* state of the process-wide random generator (module random)
    exp,        \* the PromptExperiment object's attributes, None before __init__
    producer,   \* which response producer stands behind simulate_response
    pc,         \* "new" | "ready" | "running" | "returned" | "raised"
    outer,      \* 1-based position of the outer for loop of the running branch
    inner,      \* iterations of the inner for loop completed in this outer pass
    prompt,     \* local `prompt` of run_experiments (None until rendered)
    results,    \* local `results` of run_experiments
    calls,      \* every call made to the response producer so far, in order
    draws,      \* number of random.choice draws made since the last random.seed
    ret,        \* None, or <<the list run_experiments returned>>
    err,        \* "" or the exception that left run_experiments
    first,      \* outcome of an earlier, independent run of the same design
    flat_args,  \* arguments of a direct call of flatten_results, or None
    flat_result, \* what the calls of flatten_results on flat_args returned so
                \* far, in order (None before the first call)
    gen,        \* the calls of generate_prompts / generate_hyperparameters made
                \* on the experiment, in order, each with its outcome
    other,      \* attributes of a second PromptExperiment of the process, or None
    \* the scripts of the repository, each a process of its own: the state of
    \* a run of the script (a record), or None when the script is not run
    llm,        \* 2_make_llm_ideas.py: generate_responses and safe_completion
    html,       \* fetch_startups.py / fetch_startup_data.py: fetch_html
    csv,        \* system_result_generator.py / responses_generator.py: save_responses
    fiction,    \* fetch_fiction.py: generate_urls
    osf,        \* fetch_osf_preprints.py: get_preprints
    nyt         \* fetch_nyt_opeds.py: get_nyt_headlines

\* the state of the scripts
scripts == <<llm, html, csv, fiction, osf, nyt>>

\* the state of a process that uses PromptExperiment
experiment == <<rng, exp, producer, pc, outer, inner, prompt, results, calls,
                draws, ret, err, first, flat_args, flat_result, gen, other>>

vars == <<rng, exp, producer, pc, outer, inner, prompt, results, calls, draws,
          ret, err, first, flat_args, flat_result, gen, other,
          llm, html, csv, fiction, osf, nyt>>

\* what no step of run_experiments touches
aside == <<first, flat_args, flat_result, gen, other, scripts>>

----------------------------------------------------------------------------
(* Bounds of the model *)

MaxN == 2          \* N is drawn from -1 .. MaxN
MaxVals == 2       \* a candidate list holds 0 .. MaxVals values
MaxSeed == 1       \* seeds are 416 (the default) and 1 .. MaxSeed
MaxEntropy == 1    \* a generator nobody seeded is in one of the states 0 .. MaxEntropy
\* calls of flatten_results made on the same arguments
MaxFlattenCalls == 2
\* 2_make_llm_ideas.py: completions per (task, model) of a run of
\* generate_responses, and the calls of safe_completion that may fail
MaxCompletions == 2
MaxFailures == 1
\* stop=stop_after_attempt(10) of the decorator of safe_completion
StopAfterAttempt == 10
\* system_result_generator.py: calls of save_responses on one file, and rows
\* of a batch
MaxSaves == 2
MaxBatch == 2
\* fetch_fiction.py: years of the date range, and pages per month
MaxYears == 2
MaxPages == 2
\* fetch_osf_preprints.py: months the date range may touch, the cap
\* max_results_per_month, preprints on a page, pages the API has for a month
MaxMonths == 2
MaxCap == 2
MaxItems == 2
MaxApiPages == 2
\* fetch_startups.py: days of the date range fetched in parallel
MaxDays == 2
\* stop=stop_after_attempt(3) of the decorator of fetch_html
FetchAttempts == 3
\* fetch_fiction.py line 96: the year of the default --start_date
FirstYear == 2018

DefaultSeed == 416

None == <<>>
Some(v) == <<v>>
IsNone(x) == x = <<>>
The(x) == x[1]

\* The attributes template_prompt and prompt_parameters of an experiment
\* constructed without them hold Python's None.  Here the value None of the
\* first is a template of one segment of kind "None", the value None of the
\* second a space of one parameter named "None": neither is a template or a
\* space a caller can pass, and the empty template and the empty space {}
\* stay apart from them.
NoneTemplate == <<[kind |-> "None", text |-> ""]>>
NoneSpace == <<[name |-> "None", values |-> <<>>]>>

----------------------------------------------------------------------------
(* Sequence helpers *)

RECURSIVE Flatten(_)
Flatten(ss) == IF ss = <<>> THEN <<>> ELSE Head(ss) \o Flatten(Tail(ss))

RECURSIVE ProdLen(_)
ProdLen(lists) == IF lists = <<>> THEN 1 ELSE Len(Head(lists)) * ProdLen(Tail(lists))

Range(s) == {s[i] : i \in 1..Len(s)}

----------------------------------------------------------------------------
(* Parameter spaces (the dicts handed to the constructor) *)

ParamNames(space) == {space[i].name : i \in 1..Len(space)}

ValueLists(space) == [i \in 1..Len(space) |-> space[i].values]

\* dict(zip(parameter_space, values)): the i-th declared name bound to values[i]
ZipDict(space, values) ==
    [n \in ParamNames(space) |->
        values[CHOOSE i \in 1..Len(space) : space[i].name = n]]

\* a cross product that varies the first list fastest
RECURSIVE product_first_fastest(_)
product_first_fastest(lists) ==
    IF lists = <<>> THEN << <<>> >>
    ELSE LET rest == product_first_fastest(Tail(lists))
             h == Head(lists)
         IN Flatten([j \in 1..Len(rest) |->
                        [i \in 1..Len(h) |-> <<h[i]>> \o rest[j]]])

\* itertools.product(*lists): all tuples, the last list varying fastest
RECURSIVE product(_)
product(lists) ==
    IF lists = <<>> THEN << <<>> >>
    ELSE LET rest == product(Tail(lists))
             h == Head(lists)
         IN Flatten([i \in 1..Len(h) |->
                        [j \in 1..Len(rest) |-> <<h[i]>> \o rest[j]]])

\* zip(*lists) in place of itertools.product(*lists): the k-th value of every
\* list, for as many k as the shortest list has values
factorial_params_zipped(parameter_space) ==
    LET lists == ValueLists(parameter_space)
        shortest == IF lists = <<>> THEN 0
                    ELSE CHOOSE m \in {Len(lists[i]) : i \in 1..Len(lists)} :
                            \A i \in 1..Len(lists) : m <= Len(lists[i])
    IN [k \in 1..shortest |->
            ZipDict(parameter_space, [i \in 1..Len(lists) |-> lists[i][k]])]

factorial_params(parameter_space) ==
    LET tuples == product(ValueLists(parameter_space))
    IN [k \in 1..Len(tuples) |-> ZipDict(parameter_space, tuples[k])]

----------------------------------------------------------------------------
(* The random generator: random.seed and random.choice.  The generator is  *)
(* deterministic: its state after seeding is a function of the seed, and   *)
(* every draw is a function of the state.                                  *)

RngStates == 0..15

\* the states the interpreter may leave the generator in when nobody seeds it
Unseeded == 0..MaxEntropy

seed_state(a) == a % 16

next_state(s) == (5 * s + 3) % 16

\* index random.choice picks in a list of n >= 1 values, from the state s
\* reached by advancing the generator
choice_index(s, n) == ((s \div 2) % n) + 1

\* {param: random.choice(values) for param, values in parameter_space.items()}
\* one draw per parameter in declared order; random.choice raises IndexError
\* on an empty list.  Returns the values drawn, the generator state and the
\* number of draws made.
RECURSIVE choices(_, _)
choices(lists, s) ==
    IF lists = <<>> THEN [ok |-> TRUE, values |-> <<>>, rng |-> s, n |-> 0]
    ELSE IF Len(Head(lists)) = 0
         THEN [ok |-> FALSE, values |-> <<>>, rng |-> s, n |-> 0]
         ELSE LET s1 == next_state(s)
                  v == Head(lists)[choice_index(s1, Len(Head(lists)))]
                  r == choices(Tail(lists), s1)
              IN [ok |-> r.ok, values |-> <<v>> \o r.values,
                  rng |-> r.rng, n |-> r.n + 1]

\* err names the exception raised when ok is FALSE: None has no items()
random_params(parameter_space, s) ==
    IF parameter_space = NoneSpace
    THEN [ok |-> FALSE, err |-> "AttributeError", params |-> <<>>,
          rng |-> s, n |-> 0]
    ELSE LET r == choices(ValueLists(parameter_space), s)
         IN [ok |-> r.ok,
             err |-> IF r.ok THEN "" ELSE "IndexError",
             params |-> IF r.ok THEN ZipDict(parameter_space, r.values) ELSE <<>>,
             rng |-> r.rng, n |-> r.n]

----------------------------------------------------------------------------
(* Templates: template.format with the binding as keyword arguments.  A   *)
(* template is a sequence of segments,                                     *)
(* literal text or a named slot; a slot whose name is not a key of params  *)
(* raises KeyError, keys of params the template does not use are ignored.  *)

Lit(t) == [kind |-> "lit", text |-> t]
Slot(n) == [kind |-> "slot", text |-> n]

SlotNames(template) ==
    {template[i].text : i \in {k \in 1..Len(template) : template[k].kind = "slot"}}

RECURSIVE Render(_, _)
Render(template, params) ==
    IF template = <<>> THEN ""
    ELSE LET h == Head(template)
         IN (IF h.kind = "lit" THEN h.text ELSE params[h.text])
            \o Render(Tail(template), params)

\* a rendering that leaves an unbound slot empty instead of raising
format_lenient(template, params) ==
    [ok |-> TRUE, err |-> "",
     text |-> Render(template,
                     [n \in SlotNames(template) \cup DOMAIN params |->
                        IF n \in DOMAIN params THEN params[n] ELSE ""])]

\* err names the exception raised when ok is FALSE: None has no format()
format(template, params) ==
    IF template = NoneTemplate
    THEN [ok |-> FALSE, err |-> "AttributeError", text |-> ""]
    ELSE IF SlotNames(template) \subseteq DOMAIN params
    THEN [ok |-> TRUE, err |-> "", text |-> Render(template, params)]
    ELSE [ok |-> FALSE, err |-> "KeyError", text |-> ""]

----------------------------------------------------------------------------
(* flatten_results *)

\* the comprehension with the prefix left off the keys: {k: v for k, v in d.items()}
Prefixed_bare(prefix, d) == d

\* {f'<prefix>{k}': v for k, v in d.items()}
Prefixed(prefix, d) ==
    [key \in {prefix \o k : k \in DOMAIN d} |->
        d[CHOOSE k \in DOMAIN d : prefix \o k = key]]

\* dict.update: the entries of e replace those of d
update(d, e) == e @@ d

\* flatten_results with the hyperparameters filed under the prefix of the
\* prompt parameters
flatten_results_one_prefix(p, prompt_params, hyperparams, response) ==
    LET result0 == [k \in {"prompt", "output"} |->
                        IF k = "prompt" THEN p ELSE response]
        result1 == update(result0, Prefixed("param_", prompt_params))
    IN update(result1, Prefixed("param_", hyperparams))

flatten_results(p, prompt_params, hyperparams, response) ==
    LET result0 == [k \in {"prompt", "output"} |->
                        IF k = "prompt" THEN p ELSE response]
        result1 == update(result0, Prefixed("param_", prompt_params))
    IN update(result1, Prefixed("hyper_", hyperparams))

----------------------------------------------------------------------------
(* Inputs: the constructor arguments the model draws from *)

PromptPool == <<"tone", "degrees">>
HyperPool == <<"temperature", "top_p">>

Candidates(name) ==
    CASE name = "tone" -> <<"formal", "casual", "blunt", "warm">>
      [] name = "degrees" -> <<"20", "30", "40", "50">>
      [] name = "temperature" -> <<"0.2", "0.8", "1.0", "1.5">>
      [] name = "top_p" -> <<"0.5", "0.9", "0.95", "1.0">>
      [] OTHER -> <<"first prompt", "second prompt", "third prompt", "fourth prompt">>

\* the spaces over the first k names of the pool: the first name with the
\* first 0 .. MaxVals of its candidates, every later name with MaxVals of them
Spaces(pool) ==
    {[i \in 1..k |-> [name |-> pool[i],
                      values |-> SubSeq(Candidates(pool[i]), 1,
                                        IF i = 1 THEN n ELSE MaxVals)]]
        : k \in 0..Len(pool), n \in 0..MaxVals}

ToneTemplate == <<Lit("Write in a "), Slot("tone"), Lit(" tone")>>
DegreesTemplate == <<Lit("It is "), Slot("degrees"), Lit(" degrees, say so in a "),
                     Slot("tone"), Lit(" tone")>>
Templates == {ToneTemplate, DegreesTemplate}

PromptLists == {SubSeq(Candidates("prompt"), 1, n) : n \in 0..MaxVals}

Modes == {"monte_carlo", "factorial", "grid"}
Seeds == {DefaultSeed} \cup 1..MaxSeed
Counts == -1..MaxN
Producers == {"placeholder", "llm"}

TemplatedArgs ==
    [hyperparameters : Spaces(HyperPool), N : Counts, prompt_mode : Modes,
     hyper_mode : Modes, prompts : {None}, template_prompt : Templates,
     prompt_parameters : Spaces(PromptPool), seed : Seeds]

PromptListArgs ==
    [hyperparameters : Spaces(HyperPool), N : Counts, prompt_mode : Modes,
     hyper_mode : Modes, prompts : {Some(l) : l \in PromptLists},
     template_prompt : {None}, prompt_parameters : {None}, seed : Seeds]

CtorArgs == TemplatedArgs \cup PromptListArgs

----------------------------------------------------------------------------
(* State *)

\* no script is run
NoScript ==
    /\ llm = None
    /\ html = None
    /\ csv = None
    /\ fiction = None
    /\ osf = None
    /\ nyt = None

Init ==
    /\ NoScript
    /\ rng \in Unseeded           \* seeded by the interpreter from the system
    /\ exp = None
    /\ producer \in Producers
    /\ pc = "new"
    /\ outer = 0
    /\ inner = 0
    /\ prompt = None
    /\ results = <<>>
    /\ calls = <<>>
    /\ draws = 0
    /\ ret = None
    /\ err = ""
    /\ first = None
    /\ flat_args = None
    /\ flat_result = None
    /\ gen = <<>>
    /\ other = None

self == The(exp)

\* __init__ without its last line, random.seed(self.seed)
PromptExperiment_unseeded(a) ==
    /\ pc = "new"
    /\ exp' = Some([template_prompt |->
                        IF IsNone(a.prompts) THEN a.template_prompt
                        ELSE <<Slot("prompt")>>,
                    prompt_parameters |->
                        IF IsNone(a.prompts) THEN a.prompt_parameters
                        ELSE <<[name |-> "prompt", values |-> The(a.prompts)]>>,
                    hyperparameters |-> a.hyperparameters,
                    N |-> a.N,
                    prompt_mode |-> a.prompt_mode,
                    hyper_mode |-> a.hyper_mode,
                    seed |-> a.seed])
    /\ pc' = "ready"
    /\ UNCHANGED <<rng, draws, producer, outer, inner, prompt, results, calls,
                   ret, err, aside>>

\* PromptExperiment.__init__
PromptExperiment(a) ==
    /\ pc = "new"
    /\ exp' = Some([template_prompt |->
                        IF IsNone(a.prompts) THEN a.template_prompt
                        ELSE <<Slot("prompt")>>,
                    prompt_parameters |->
                        IF IsNone(a.prompts) THEN a.prompt_parameters
                        ELSE <<[name |-> "prompt", values |-> The(a.prompts)]>>,
                    hyperparameters |-> a.hyperparameters,
                    N |-> a.N,
                    prompt_mode |-> a.prompt_mode,
                    hyper_mode |-> a.hyper_mode,
                    seed |-> a.seed])
    /\ rng' = seed_state(a.seed)
    /\ draws' = 0
    /\ pc' = "ready"
    /\ UNCHANGED <<producer, outer, inner, prompt, results, calls, ret, err, aside>>

----------------------------------------------------------------------------
(* run_experiments *)

\* the response producer behind simulate_response: the placeholder of the
\* class always returns the same string; a producer that calls a model
\* returns a response of its own to every call
simulate_response(p, hyperparams) ==
    IF producer = "placeholder" THEN "Simulated response."
    ELSE "response " \o ToString(Len(calls) + 1)

\* run_experiments that first brings a negative count to zero in place:
\* self.N = max(self.N, 0)
run_experiments_clamping_N ==
    /\ pc = "ready"
    /\ pc' = "running"
    /\ exp' = Some([self EXCEPT !.N = IF self.N < 0 THEN 0 ELSE self.N])
    /\ results' = <<>>
    /\ outer' = 0
    /\ inner' = 0
    /\ prompt' = None
    /\ calls' = <<>>
    /\ ret' = None
    /\ err' = ""
    /\ UNCHANGED <<rng, producer, draws, aside>>

\* run_experiments is entered: results = []
run_experiments ==
    /\ pc = "ready"
    /\ pc' = "running"
    /\ results' = <<>>
    /\ outer' = 0
    /\ inner' = 0
    /\ prompt' = None
    /\ calls' = <<>>
    /\ ret' = None
    /\ err' = ""
    /\ UNCHANGED <<rng, exp, producer, draws, aside>>

\* an exception leaves run_experiments: its frame, and results with it, is gone
Raise(e, s, n) ==
    /\ pc' = "raised"
    /\ err' = e
    /\ rng' = s
    /\ draws' = draws + n
    /\ results' = <<>>
    /\ outer' = 0
    /\ inner' = 0
    /\ prompt' = None
    /\ ret' = None
    /\ UNCHANGED <<exp, producer, aside>>

\* the producer called twice for one condition, the first response dropped
Condition_called_twice(p, prompt_params, hyperparams, s, n, o, i) ==
    \/ /\ producer # "placeholder"
       /\ calls' = Append(calls, [prompt |-> p, hyperparams |-> hyperparams,
                                  raised |-> TRUE, value |-> ""])
       /\ Raise("ProducerError", s, n)
    \/ LET dropped == [prompt |-> p, hyperparams |-> hyperparams,
                       raised |-> FALSE, value |-> simulate_response(p, hyperparams)]
           response == IF producer = "placeholder" THEN "Simulated response."
                       ELSE "response " \o ToString(Len(calls) + 2)
       IN /\ calls' = calls \o <<dropped, [prompt |-> p, hyperparams |-> hyperparams,
                                           raised |-> FALSE, value |-> response]>>
          /\ results' = Append(results,
                               flatten_results(p, prompt_params, hyperparams, response))
          /\ rng' = s
          /\ draws' = draws + n
          /\ outer' = o
          /\ inner' = i
          /\ UNCHANGED <<exp, producer, pc, prompt, ret, err, aside>>

\* the call wrapped in try/except: a producer error is logged, the condition
\* is left out of results and the loops go on
Condition_continue_on_error(p, prompt_params, hyperparams, s, n, o, i) ==
    \/ /\ producer # "placeholder"
       /\ calls' = Append(calls, [prompt |-> p, hyperparams |-> hyperparams,
                                  raised |-> TRUE, value |-> ""])
       /\ rng' = s
       /\ draws' = draws + n
       /\ outer' = o
       /\ inner' = i
       /\ UNCHANGED <<exp, producer, pc, prompt, results, ret, err, aside>>
    \/ LET response == simulate_response(p, hyperparams)
       IN /\ calls' = Append(calls, [prompt |-> p, hyperparams |-> hyperparams,
                                     raised |-> FALSE, value |-> response])
          /\ results' = Append(results,
                               flatten_results(p, prompt_params, hyperparams, response))
          /\ rng' = s
          /\ draws' = draws + n
          /\ outer' = o
          /\ inner' = i
          /\ UNCHANGED <<exp, producer, pc, prompt, ret, err, aside>>

\* response = self.simulate_response(prompt, hyperparams)
\* result = self.flatten_results(prompt, prompt_params, hyperparams, response)
\* results.append(result)
\* with the generator left in state s after n draws, the loops at (o, i)
Condition(p, prompt_params, hyperparams, s, n, o, i) ==
    \/ /\ producer # "placeholder"
       /\ calls' = Append(calls, [prompt |-> p, hyperparams |-> hyperparams,
                                  raised |-> TRUE, value |-> ""])
       /\ Raise("ProducerError", s, n)
    \/ LET response == simulate_response(p, hyperparams)
       IN /\ calls' = Append(calls, [prompt |-> p, hyperparams |-> hyperparams,
                                     raised |-> FALSE, value |-> response])
          /\ results' = Append(results,
                               flatten_results(p, prompt_params, hyperparams, response))
          /\ rng' = s
          /\ draws' = draws + n
          /\ outer' = o
          /\ inner' = i
          /\ UNCHANGED <<exp, producer, pc, prompt, ret, err, aside>>

InBranch(pm, hm) ==
    /\ pc = "running"
    /\ self.prompt_mode = pm
    /\ self.hyper_mode = hm

\* the loop of lines 69-76 running once too often: range(self.N + 1)
LoopMcMc_once_more ==
    /\ InBranch("monte_carlo", "monte_carlo")
    /\ outer < self.N + 1
    /\ LET pp == random_params(self.prompt_parameters, rng)
           f == format(self.template_prompt, pp.params)
           hp == random_params(self.hyperparameters, pp.rng)
       IN IF ~pp.ok THEN Raise(pp.err, pp.rng, pp.n) /\ UNCHANGED calls
          ELSE IF ~f.ok THEN Raise(f.err, pp.rng, pp.n) /\ UNCHANGED calls
          ELSE IF ~hp.ok THEN Raise(hp.err, hp.rng, pp.n + hp.n)
                              /\ UNCHANGED calls
          ELSE Condition(f.text, pp.params, hp.params, hp.rng, pp.n + hp.n,
                         outer + 1, 0)

\* lines 69-76 with the two draws exchanged: the hyperparameters are drawn
\* before the prompt parameters
LoopMcMc_hyperparams_first ==
    /\ InBranch("monte_carlo", "monte_carlo")
    /\ outer < self.N
    /\ LET hp == random_params(self.hyperparameters, rng)
           pp == random_params(self.prompt_parameters, hp.rng)
           f == format(self.template_prompt, pp.params)
       IN IF ~hp.ok THEN Raise(hp.err, hp.rng, hp.n) /\ UNCHANGED calls
          ELSE IF ~pp.ok THEN Raise(pp.err, pp.rng, hp.n + pp.n)
                              /\ UNCHANGED calls
          ELSE IF ~f.ok THEN Raise(f.err, pp.rng, hp.n + pp.n)
                             /\ UNCHANGED calls
          ELSE Condition(f.text, pp.params, hp.params, pp.rng, pp.n + hp.n,
                         outer + 1, 0)

\* lines 69-76: one iteration of `for _ in range(self.N)`
LoopMcMc ==
    /\ InBranch("monte_carlo", "monte_carlo")
    /\ outer < self.N
    /\ LET pp == random_params(self.prompt_parameters, rng)
           f == format(self.template_prompt, pp.params)
           hp == random_params(self.hyperparameters, pp.rng)
       IN IF ~pp.ok THEN Raise(pp.err, pp.rng, pp.n) /\ UNCHANGED calls
          ELSE IF ~f.ok THEN Raise(f.err, pp.rng, pp.n) /\ UNCHANGED calls
          ELSE IF ~hp.ok THEN Raise(hp.err, hp.rng, pp.n + hp.n)
                              /\ UNCHANGED calls
          ELSE Condition(f.text, pp.params, hp.params, hp.rng, pp.n + hp.n,
                         outer + 1, 0)

\* the inner loop of the current outer pass has run out (or none was entered)
InnerDone(count) == outer = 0 \/ inner >= count

\* lines 79-80 and 88-89: the next prompt binding of the outer loop is taken
\* and the prompt rendered from it
OuterFactorialPrompt ==
    /\ \/ InBranch("factorial", "monte_carlo") /\ InnerDone(self.N)
       \/ InBranch("factorial", "factorial")
            /\ InnerDone(Len(factorial_params(self.hyperparameters)))
    /\ IF self.prompt_parameters = NoneSpace \* None has no values()
       THEN Raise("AttributeError", rng, 0) /\ UNCHANGED calls
       ELSE /\ outer < Len(factorial_params(self.prompt_parameters))
            /\ LET prompt_params == factorial_params(self.prompt_parameters)[outer + 1]
                   f == format(self.template_prompt, prompt_params)
               IN IF ~f.ok THEN Raise(f.err, rng, 0) /\ UNCHANGED calls
                  ELSE /\ prompt' = Some(f.text)
                       /\ outer' = outer + 1
                       /\ inner' = 0
                       /\ UNCHANGED <<rng, exp, producer, pc, results, calls,
                                      draws, ret, err, aside>>

\* lines 81-85 with the hyperparameters drawn once per prompt binding, before
\* the inner loop, and used again by each of its iterations
InnerFacMc_drawn_once ==
    /\ InBranch("factorial", "monte_carlo")
    /\ outer >= 1
    /\ inner < self.N
    /\ LET prompt_params == factorial_params(self.prompt_parameters)[outer]
           hp == random_params(self.hyperparameters, rng)
       IN IF ~hp.ok THEN Raise(hp.err, hp.rng, hp.n) /\ UNCHANGED calls
          ELSE IF inner = 0
               THEN Condition(The(prompt), prompt_params, hp.params, hp.rng, hp.n,
                              outer, inner + 1)
               ELSE Condition(The(prompt), prompt_params,
                              calls[Len(calls)].hyperparams, rng, 0,
                              outer, inner + 1)

\* lines 81-85: one iteration of `for _ in range(self.N)`
InnerFacMc ==
    /\ InBranch("factorial", "monte_carlo")
    /\ outer >= 1
    /\ inner < self.N
    /\ LET prompt_params == factorial_params(self.prompt_parameters)[outer]
           hp == random_params(self.hyperparameters, rng)
       IN IF ~hp.ok THEN Raise(hp.err, hp.rng, hp.n) /\ UNCHANGED calls
          ELSE Condition(The(prompt), prompt_params, hp.params, hp.rng, hp.n,
                         outer, inner + 1)

\* lines 90-93 with the record built from the prompt binding alone, the
\* hyperparameters left out of the call of flatten_results
InnerFacFac_without_hyperparams ==
    /\ InBranch("factorial", "factorial")
    /\ outer >= 1
    /\ inner < Len(factorial_params(self.hyperparameters))
    /\ LET prompt_params == factorial_params(self.prompt_parameters)[outer]
       IN Condition(The(prompt), prompt_params, [n \in {} |-> ""], rng, 0,
                    outer, inner + 1)

\* lines 90-93: one iteration of the loop over the hyperparameter bindings
InnerFacFac ==
    /\ InBranch("factorial", "factorial")
    /\ outer >= 1
    /\ inner < Len(factorial_params(self.hyperparameters))
    /\ LET prompt_params == factorial_params(self.prompt_parameters)[outer]
           hyperparams == factorial_params(self.hyperparameters)[inner + 1]
       IN Condition(The(prompt), prompt_params, hyperparams, rng, 0,
                    outer, inner + 1)

\* line 96: the next hyperparameter binding of the outer loop is taken
OuterMcFac ==
    /\ InBranch("monte_carlo", "factorial")
    /\ InnerDone(self.N)
    /\ outer < Len(factorial_params(self.hyperparameters))
    /\ outer' = outer + 1
    /\ inner' = 0
    /\ UNCHANGED <<rng, exp, producer, pc, prompt, results, calls, draws,
                   ret, err, aside>>

\* lines 97-102 with the prompt rendered once per hyperparameter binding: the
\* later iterations draw their binding and keep the first iteration's prompt
InnerMcFac_stale_prompt ==
    /\ InBranch("monte_carlo", "factorial")
    /\ outer >= 1
    /\ inner < self.N
    /\ LET hyperparams == factorial_params(self.hyperparameters)[outer]
           pp == random_params(self.prompt_parameters, rng)
           f == format(self.template_prompt, pp.params)
       IN IF ~pp.ok THEN Raise(pp.err, pp.rng, pp.n) /\ UNCHANGED calls
          ELSE IF ~f.ok THEN Raise(f.err, pp.rng, pp.n) /\ UNCHANGED calls
          ELSE Condition(IF inner = 0 THEN f.text ELSE calls[Len(calls)].prompt,
                         pp.params, hyperparams, pp.rng, pp.n,
                         outer, inner + 1)

\* lines 97-102: one iteration of `for _ in range(self.N)`
InnerMcFac ==
    /\ InBranch("monte_carlo", "factorial")
    /\ outer >= 1
    /\ inner < self.N
    /\ LET hyperparams == factorial_params(self.hyperparameters)[outer]
           pp == random_params(self.prompt_parameters, rng)
           f == format(self.template_prompt, pp.params)
       IN IF ~pp.ok THEN Raise(pp.err, pp.rng, pp.n) /\ UNCHANGED calls
          ELSE IF ~f.ok THEN Raise(f.err, pp.rng, pp.n) /\ UNCHANGED calls
          ELSE Condition(f.text, pp.params, hyperparams, pp.rng, pp.n,
                         outer, inner + 1)

\* the loops of the branch taken have run out (no branch is taken when a
\* mode is neither 'monte_carlo' nor 'factorial')
LoopsDone ==
    LET pm == self.prompt_mode
        hm == self.hyper_mode
    IN CASE pm = "monte_carlo" /\ hm = "monte_carlo" -> outer >= self.N
         [] pm = "factorial" /\ hm = "monte_carlo" ->
                /\ self.prompt_parameters # NoneSpace
                /\ InnerDone(self.N)
                /\ outer >= Len(factorial_params(self.prompt_parameters))
         [] pm = "factorial" /\ hm = "factorial" ->
                /\ self.prompt_parameters # NoneSpace
                /\ InnerDone(Len(factorial_params(self.hyperparameters)))
                /\ outer >= Len(factorial_params(self.prompt_parameters))
         [] pm = "monte_carlo" /\ hm = "factorial" ->
                /\ InnerDone(self.N)
                /\ outer >= Len(factorial_params(self.hyperparameters))
         [] OTHER -> TRUE

\* a run_experiments closing its chain of branches with
\* `else: raise ValueError`
Return_rejecting_other_modes ==
    /\ pc = "running"
    /\ LoopsDone
    /\ IF /\ self.prompt_mode \in {"monte_carlo", "factorial"}
          /\ self.hyper_mode \in {"monte_carlo", "factorial"}
       THEN /\ pc' = "returned"
            /\ ret' = Some(results)
            /\ UNCHANGED <<rng, exp, producer, outer, inner, prompt, results,
                           calls, draws, err, aside>>
       ELSE Raise("ValueError", rng, 0) /\ UNCHANGED calls

\* line 104: return results
Return ==
    /\ pc = "running"
    /\ LoopsDone
    /\ pc' = "returned"
    /\ ret' = Some(results)
    /\ UNCHANGED <<rng, exp, producer, outer, inner, prompt, results, calls,
                   draws, err, aside>>

Next ==
    \/ pc = "new" /\ first = None /\ \E a \in CtorArgs : PromptExperiment(a)
    \/ run_experiments
    \/ LoopMcMc
    \/ OuterFactorialPrompt
    \/ InnerFacMc
    \/ InnerFacFac
    \/ OuterMcFac
    \/ InnerMcFac
    \/ Return

Spec == Init /\ [][Next]_vars

----------------------------------------------------------------------------
(* Two independent runs of one design: when the first run has returned, a  *)
(* second process starts with a generator of its own, constructs an        *)
(* experiment with the same attributes and runs it.                        *)

\* the first run has returned and is remembered; a new process starts
SecondProcess ==
    /\ pc = "returned"
    /\ first = None
    /\ first' = Some([exp |-> self, ret |-> ret, calls |-> calls])
    /\ rng' \in Unseeded
    /\ exp' = None
    /\ pc' = "new"
    /\ outer' = 0
    /\ inner' = 0
    /\ prompt' = None
    /\ results' = <<>>
    /\ calls' = <<>>
    /\ draws' = 0
    /\ ret' = None
    /\ err' = ""
    /\ UNCHANGED <<producer, flat_args, flat_result, gen, other, scripts>>

\* constructor arguments that give an experiment the attributes of e
ArgsOf(e) ==
    [hyperparameters |-> e.hyperparameters, N |-> e.N,
     prompt_mode |-> e.prompt_mode, hyper_mode |-> e.hyper_mode,
     prompts |-> None, template_prompt |-> e.template_prompt,
     prompt_parameters |-> e.prompt_parameters, seed |-> e.seed]

\* the second process constructs the design of the first
SameDesign ==
    /\ pc = "new"
    /\ first # None
    /\ PromptExperiment(ArgsOf(The(first).exp))

NextRepro == Next \/ SecondProcess \/ SameDesign

SpecRepro == Init /\ [][NextRepro]_vars

----------------------------------------------------------------------------
(* flatten_results called on its own: any prompt, any two bindings (the    *)
(* names `prompt` and `output` and names the two bindings share included)  *)
(* and any response.                                                       *)

FlatNames == {"tone", "prompt", "output"}
FlatValues == {"formal", "0.2"}
FlatBindings == UNION {[names -> FlatValues] : names \in SUBSET FlatNames}

FlattenArgs ==
    [prompt : {"Write in a formal tone"}, prompt_params : FlatBindings,
     hyperparams : FlatBindings, response : {"Simulated response."}]

InitFlatten ==
    /\ rng \in Unseeded
    /\ exp = None
    /\ producer \in Producers
    /\ pc = "new"
    /\ outer = 0
    /\ inner = 0
    /\ prompt = None
    /\ results = <<>>
    /\ calls = <<>>
    /\ draws = 0
    /\ ret = None
    /\ err = ""
    /\ first = None
    /\ NoScript
    /\ flat_args \in {Some(a) : a \in FlattenArgs}
    /\ flat_result = None
    /\ gen = <<>>
    /\ other = None

\* flatten_results building its record in the mapping it was passed:
\* result = prompt_params; result.update({'prompt': ..., 'output': ...}) ...
FlattenCall_in_place ==
    /\ flat_args # None
    /\ Len(flat_result) < MaxFlattenCalls
    /\ LET a == The(flat_args)
           result0 == update(a.prompt_params,
                             [k \in {"prompt", "output"} |->
                                 IF k = "prompt" THEN a.prompt ELSE a.response])
           result1 == update(result0, Prefixed("param_", a.prompt_params))
           result == update(result1, Prefixed("hyper_", a.hyperparams))
       IN /\ flat_result' = Append(flat_result, result)
          /\ flat_args' = Some([a EXCEPT !.prompt_params = result])
    /\ UNCHANGED <<rng, exp, producer, pc, outer, inner, prompt, results, calls,
                   draws, ret, err, first, gen, other, scripts>>

\* result = self.flatten_results(prompt, prompt_params, hyperparams, response),
\* called again and again on the same objects
FlattenCall ==
    /\ flat_args # None
    /\ Len(flat_result) < MaxFlattenCalls
    /\ LET a == The(flat_args)
       IN flat_result' = Append(flat_result,
                                flatten_results(a.prompt, a.prompt_params,
                                                a.hyperparams, a.response))
    /\ UNCHANGED <<rng, exp, producer, pc, outer, inner, prompt, results, calls,
                   draws, ret, err, first, flat_args, gen, other, scripts>>

NextFlatten == FlattenCall

SpecFlatten == InitFlatten /\ [][NextFlatten]_vars

----------------------------------------------------------------------------
(* Construction without a list of prompts and without the template, the    *)
(* prompt parameters, or both: the keyword arguments left at their default *)
(* None.                                                                   *)

IncompleteArgs ==
    {a \in [hyperparameters : Spaces(HyperPool), N : Counts, prompt_mode : Modes,
            hyper_mode : Modes, prompts : {None},
            template_prompt : Templates \cup {NoneTemplate},
            prompt_parameters : Spaces(PromptPool) \cup {NoneSpace},
            seed : Seeds] :
        a.template_prompt = NoneTemplate \/ a.prompt_parameters = NoneSpace}

NextConstruct ==
    \/ Next
    \/ pc = "new" /\ first = None /\ \E a \in IncompleteArgs : PromptExperiment(a)

SpecConstruct == Init /\ [][NextConstruct]_vars

----------------------------------------------------------------------------
(* Two experiments in one process.  The process of the second run holds,   *)
(* beside the experiment that repeats the first run (A), another           *)
(* PromptExperiment (B) of the same design under a seed of its own,        *)
(* constructed before A, or after A, at any moment A is not inside         *)
(* run_experiments.  __init__ seeds the generator of the random module,    *)
(* which the whole process shares.                                         *)

\* B = PromptExperiment(..., seed=b)
OtherExperiment(b) ==
    /\ first # None
    /\ other = None
    /\ pc # "running"
    /\ other' = Some([The(first).exp EXCEPT !.seed = b])
    /\ rng' = seed_state(b)
    /\ draws' = 0
    /\ UNCHANGED <<exp, producer, pc, outer, inner, prompt, results, calls,
                   ret, err, first, flat_args, flat_result, gen, scripts>>

NextTwo == NextRepro \/ \E b \in Seeds : OtherExperiment(b)

SpecTwo == Init /\ [][NextTwo]_vars

----------------------------------------------------------------------------
(* generate_prompts and generate_hyperparameters: the two list builders a  *)
(* caller may use on a constructed experiment before running it.  Each     *)
(* call is logged in gen with the exception it raised ("" for none) and    *)
(* the value it returned: Some(list), or None when the method fell off its *)
(* end because the mode is neither 'monte_carlo' nor 'factorial'.  Each    *)
(* method is called at most once on an experiment.                         *)

\* [self.random_params(space) for _ in range(count)]
RECURSIVE drawn_params(_, _, _)
drawn_params(space, count, s) ==
    IF count <= 0 THEN [err |-> "", value |-> <<>>, rng |-> s, n |-> 0]
    ELSE LET b == random_params(space, s)
         IN IF ~b.ok
            THEN [err |-> b.err, value |-> <<>>, rng |-> b.rng, n |-> b.n]
            ELSE LET r == drawn_params(space, count - 1, b.rng)
                 IN [err |-> r.err,
                     value |-> IF r.err = "" THEN <<b.params>> \o r.value ELSE <<>>,
                     rng |-> r.rng, n |-> b.n + r.n]

\* [template.format(**self.random_params(space)) for _ in range(count)]
RECURSIVE drawn_prompts(_, _, _, _)
drawn_prompts(template, space, count, s) ==
    IF count <= 0 THEN [err |-> "", value |-> <<>>, rng |-> s, n |-> 0]
    ELSE LET b == random_params(space, s)
             f == format(template, b.params)
         IN IF template = NoneTemplate \* .format is looked up before the draw
            THEN [err |-> "AttributeError", value |-> <<>>, rng |-> s, n |-> 0]
            ELSE IF ~b.ok
            THEN [err |-> b.err, value |-> <<>>, rng |-> b.rng, n |-> b.n]
            ELSE IF ~f.ok
            THEN [err |-> f.err, value |-> <<>>, rng |-> b.rng, n |-> b.n]
            ELSE LET r == drawn_prompts(template, space, count - 1, b.rng)
                 IN [err |-> r.err,
                     value |-> IF r.err = "" THEN <<f.text>> \o r.value ELSE <<>>,
                     rng |-> r.rng, n |-> b.n + r.n]

\* [template.format(**params) for params in bindings]
RECURSIVE rendered_prompts(_, _)
rendered_prompts(template, bindings) ==
    IF bindings = <<>> THEN [err |-> "", value |-> <<>>]
    ELSE LET f == format(template, Head(bindings))
             r == rendered_prompts(template, Tail(bindings))
         IN IF ~f.ok THEN [err |-> f.err, value |-> <<>>]
            ELSE [err |-> r.err,
                  value |-> IF r.err = "" THEN <<f.text>> \o r.value ELSE <<>>]

Called(method) == \E k \in 1..Len(gen) : gen[k].method = method

\* the caller's side of a call: the outcome is logged, the stream advanced
Generated(method, err0, value, s, n) ==
    /\ gen' = Append(gen, [method |-> method, err |-> err0,
                           value |-> IF err0 = "" THEN value ELSE None])
    /\ rng' = s
    /\ draws' = draws + n
    /\ UNCHANGED <<exp, producer, pc, outer, inner, prompt, results, calls,
                   ret, err, first, flat_args, flat_result, other, scripts>>

generate_prompts ==
    /\ pc = "ready"
    /\ ~Called("generate_prompts")
    /\ IF self.prompt_mode = "monte_carlo"
       THEN LET r == drawn_prompts(self.template_prompt, self.prompt_parameters,
                                   self.N, rng)
            IN Generated("generate_prompts", r.err, Some(r.value), r.rng, r.n)
       ELSE IF self.prompt_mode = "factorial"
       THEN IF self.prompt_parameters = NoneSpace \* None has no values()
            THEN Generated("generate_prompts", "AttributeError", None, rng, 0)
            ELSE LET r == rendered_prompts(self.template_prompt,
                                           factorial_params(self.prompt_parameters))
                 IN Generated("generate_prompts", r.err, Some(r.value), rng, 0)
       ELSE Generated("generate_prompts", "", None, rng, 0)

\* generate_hyperparameters with the bindings drawn put through a set: a
\* binding drawn again is dropped
RECURSIVE Deduplicated(_)
Deduplicated(l) ==
    IF l = <<>> THEN <<>>
    ELSE LET rest == Deduplicated(Tail(l))
         IN IF \E k \in 1..Len(rest) : rest[k] = Head(l)
            THEN rest ELSE <<Head(l)>> \o rest

generate_hyperparameters_distinct ==
    /\ pc = "ready"
    /\ ~Called("generate_hyperparameters")
    /\ IF self.hyper_mode = "monte_carlo"
       THEN LET r == drawn_params(self.hyperparameters, self.N, rng)
            IN Generated("generate_hyperparameters", r.err,
                         Some(Deduplicated(r.value)), r.rng, r.n)
       ELSE IF self.hyper_mode = "factorial"
       THEN Generated("generate_hyperparameters", "",
                      Some(factorial_params(self.hyperparameters)), rng, 0)
       ELSE Generated("generate_hyperparameters", "", None, rng, 0)

generate_hyperparameters ==
    /\ pc = "ready"
    /\ ~Called("generate_hyperparameters")
    /\ IF self.hyper_mode = "monte_carlo"
       THEN LET r == drawn_params(self.hyperparameters, self.N, rng)
            IN Generated("generate_hyperparameters", r.err, Some(r.value),
                         r.rng, r.n)
       ELSE IF self.hyper_mode = "factorial"
       THEN Generated("generate_hyperparameters", "",
                      Some(factorial_params(self.hyperparameters)), rng, 0)
       ELSE Generated("generate_hyperparameters", "", None, rng, 0)

\* the experiment's own simulate_response is the producer
InitGenerate == Init /\ producer = "placeholder"

NextGenerate == Next \/ generate_prompts \/ generate_hyperparameters

SpecGenerate == InitGenerate /\ [][NextGenerate]_vars

----------------------------------------------------------------------------
(* Vocabulary of the properties *)

Modes2(pm, hm) ==
    /\ exp # None
    /\ self.prompt_mode = pm
    /\ self.hyper_mode = hm

\* run_experiments returned under the modes (pm, hm)
ReturnedIn(pm, hm) == pc = "returned" /\ Modes2(pm, hm)

Returned == The(ret)

PSpace == self.prompt_parameters
HSpace == self.hyperparameters

\* cardinality of a space: the product of its list lengths
Cardinal(space) == ProdLen(ValueLists(space))

\* every binding of a space: one candidate per declared name
AllBindings(space) ==
    {f \in [ParamNames(space) -> UNION {Range(space[i].values) : i \in 1..Len(space)}] :
        \A i \in 1..Len(space) : f[space[i].name] \in Range(space[i].values)}

\* the bindings a record carries under its param_ and hyper_ keys
ParamPart(r, space) == [n \in ParamNames(space) |-> r["param_" \o n]]
HyperPart(r, space) == [n \in ParamNames(space) |-> r["hyper_" \o n]]

\* the m-th binding (m >= 1) of a space in odometer order: the declared
\* parameter i turns once every Stride(i) bindings
RECURSIVE Stride(_, _)
Stride(space, i) ==
    IF i >= Len(space) THEN 1
    ELSE Len(space[i + 1].values) * Stride(space, i + 1)

OdometerBinding(space, m) ==
    ZipDict(space,
            [i \in 1..Len(space) |->
                space[i].values[(((m - 1) \div Stride(space, i))
                                    % Len(space[i].values)) + 1]])

ToneSpace == <<[name |-> "tone", values |-> <<"formal", "casual">>]>>
TemperatureSpace == <<[name |-> "temperature", values |-> <<"0.2", "0.8">>]>>

----------------------------------------------------------------------------
(* C1: factorial x factorial returns exactly P*H records, and every pair   *)
(* of a prompt binding and a hyperparameter binding of the two cross       *)
(* products is carried by exactly one record, whatever N and the seed.     *)
C1_FactorialFactorialCoversEachPairOnce ==
    ReturnedIn("factorial", "factorial") =>
        /\ Len(Returned) = Cardinal(PSpace) * Cardinal(HSpace)
        /\ \A pb \in AllBindings(PSpace), hb \in AllBindings(HSpace) :
              Cardinality({k \in 1..Len(Returned) :
                              /\ ParamPart(Returned[k], PSpace) = pb
                              /\ HyperPart(Returned[k], HSpace) = hb}) = 1

\* a factorial x factorial run over two spaces of two parameters each returned
C1_Witness ==
    /\ ReturnedIn("factorial", "factorial")
    /\ Len(PSpace) = 2 /\ Len(HSpace) = 2
    /\ Cardinal(PSpace) >= 2 /\ Cardinal(HSpace) >= 4
    /\ Len(Returned) = Cardinal(PSpace) * Cardinal(HSpace)

(* C2: factorial x factorial records come in odometer order: the prompt    *)
(* binding is the outer loop, the hyperparameter binding the inner loop,   *)
(* and inside a space the last declared parameter varies fastest; for      *)
(* {tone: [formal, casual]} x {temperature: [0.2, 0.8]} the order is       *)
(* (formal,0.2), (formal,0.8), (casual,0.2), (casual,0.8).                 *)
C2_FactorialFactorialOdometerOrder ==
    ReturnedIn("factorial", "factorial") =>
        /\ \A k \in 1..Len(Returned) :
              /\ ParamPart(Returned[k], PSpace)
                    = OdometerBinding(PSpace, ((k - 1) \div Cardinal(HSpace)) + 1)
              /\ HyperPart(Returned[k], HSpace)
                    = OdometerBinding(HSpace, ((k - 1) % Cardinal(HSpace)) + 1)
        /\ (PSpace = ToneSpace /\ HSpace = TemperatureSpace) =>
              [k \in 1..Len(Returned) |->
                    <<Returned[k]["param_tone"], Returned[k]["hyper_temperature"]>>]
                = << <<"formal", "0.2">>, <<"formal", "0.8">>,
                     <<"casual", "0.2">>, <<"casual", "0.8">> >>

\* the run of the example returned its four records
C2_Witness ==
    /\ ReturnedIn("factorial", "factorial")
    /\ PSpace = ToneSpace /\ HSpace = TemperatureSpace
    /\ Len(Returned) = 4

----------------------------------------------------------------------------
(* The random stream of a run: the generator is seeded by the constructor, *)
(* and the n-th state after the seeding is reached by n draws.             *)

RECURSIVE StateAfter(_, _)
StateAfter(s, n) == IF n = 0 THEN s ELSE StateAfter(next_state(s), n - 1)

\* the binding of `space` drawn when k bindings of it were drawn before, by a
\* run that draws from no other space
FreshBinding(space, k) ==
    random_params(space, StateAfter(seed_state(self.seed), k * Len(space))).params

(* C3: factorial x monte_carlo returns exactly P*N records for every       *)
(* N >= 0, grouped by prompt binding in enumeration order, N consecutive   *)
(* records per prompt binding, each record with a hyperparameter binding   *)
(* drawn for it alone (the k-th record carries the k-th draw).             *)
C3_FactorialMonteCarloDrawsPerRecord ==
    (ReturnedIn("factorial", "monte_carlo") /\ self.N >= 0) =>
        /\ Len(Returned) = Cardinal(PSpace) * self.N
        /\ \A k \in 1..Len(Returned) :
              LET pb == factorial_params(PSpace)[((k - 1) \div self.N) + 1]
              IN /\ ParamPart(Returned[k], PSpace) = pb
                 /\ Returned[k]["prompt"] = format(self.template_prompt, pb).text
                 /\ HyperPart(Returned[k], HSpace) = FreshBinding(HSpace, k - 1)

\* a run over several prompt bindings with N = 2 returned, and the two
\* records of its first prompt binding carry different draws
C3_Witness ==
    /\ ReturnedIn("factorial", "monte_carlo")
    /\ self.N = 2
    /\ Cardinal(PSpace) >= 2
    /\ Len(Returned) = 2 * Cardinal(PSpace)
    /\ HyperPart(Returned[1], HSpace) # HyperPart(Returned[2], HSpace)

(* C4: monte_carlo x factorial returns exactly H*N records for every       *)
(* N >= 0: the outer loop is over the hyperparameter bindings in           *)
(* enumeration order, N consecutive records per hyperparameter binding,    *)
(* each record with a prompt binding drawn for it alone and the prompt     *)
(* rendered from that binding.                                             *)
C4_MonteCarloFactorialDrawsPerRecord ==
    (ReturnedIn("monte_carlo", "factorial") /\ self.N >= 0) =>
        /\ Len(Returned) = Cardinal(HSpace) * self.N
        /\ \A k \in 1..Len(Returned) :
              LET pb == FreshBinding(PSpace, k - 1)
              IN /\ HyperPart(Returned[k], HSpace)
                        = factorial_params(HSpace)[((k - 1) \div self.N) + 1]
                 /\ ParamPart(Returned[k], PSpace) = pb
                 /\ Returned[k]["prompt"] = format(self.template_prompt, pb).text

\* a run over several hyperparameter bindings with N = 2 returned, and the
\* two records of its first hyperparameter binding carry different prompts
C4_Witness ==
    /\ ReturnedIn("monte_carlo", "factorial")
    /\ self.N = 2
    /\ Cardinal(HSpace) >= 2
    /\ Len(Returned) = 2 * Cardinal(HSpace)
    /\ Returned[1]["prompt"] # Returned[2]["prompt"]

(* C5: monte_carlo x monte_carlo returns exactly N records for every       *)
(* N >= 0, whatever the cardinalities of the two spaces; with N = 0 the    *)
(* run returns an empty list: it cannot raise, it makes no call to the     *)
(* response producer, and nothing but the return is left for it to do.     *)
C5_MonteCarloMonteCarloReturnsN ==
    /\ (ReturnedIn("monte_carlo", "monte_carlo") /\ self.N >= 0) =>
            Len(Returned) = self.N
    /\ (Modes2("monte_carlo", "monte_carlo") /\ self.N = 0) =>
            /\ pc # "raised"
            /\ err = ""
            /\ calls = <<>>
            /\ pc = "running" => (LoopsDone /\ ~ENABLED LoopMcMc)
            /\ pc = "returned" => Returned = <<>>

\* a run with N = 2 returned two records although each space has one binding
C5_Witness ==
    /\ ReturnedIn("monte_carlo", "monte_carlo")
    /\ self.N = 2
    /\ Cardinal(PSpace) = 1 /\ Cardinal(HSpace) = 1
    /\ Len(Returned) = 2

----------------------------------------------------------------------------
\* the bindings of the first k producer calls of a call log
Bindings(log, k) ==
    [i \in 1..k |-> [prompt |-> log[i].prompt, hyperparams |-> log[i].hyperparams]]

Shorter(a, b) == IF a <= b THEN a ELSE b

(* C6: reproducibility.  Two independent runs that construct the same      *)
(* design with the same seed and call run_experiments once draw the same   *)
(* bindings, condition for condition, and when both return they return     *)
(* the same record sequence; this holds under each policy, the three       *)
(* with a monte_carlo side included.                                       *)
C6_SameSeedSameRecords ==
    (first # None /\ exp # None) =>
        /\ Bindings(calls, Shorter(Len(calls), Len(The(first).calls)))
             = Bindings(The(first).calls, Shorter(Len(calls), Len(The(first).calls)))
        /\ pc = "returned" => ret = The(first).ret

\* a second run of a monte_carlo x monte_carlo design returned its two records
C6_Witness ==
    /\ first # None
    /\ ReturnedIn("monte_carlo", "monte_carlo")
    /\ Len(Returned) = 2
    /\ Cardinal(PSpace) >= 2 /\ Cardinal(HSpace) >= 2
    /\ Returned[1] # Returned[2]

(* C7: under each of the four policies the response producer is called     *)
(* exactly once per condition, in the order of the conditions, with the    *)
(* condition's rendered prompt and hyperparameter binding, and the i-th    *)
(* record holds the i-th call's return value as `output`: the producer     *)
(* calls and the records stay equal in number.                             *)
C7_OneProducerCallPerRecord ==
    (exp # None /\ pc \in {"running", "returned"}) =>
        /\ Len(calls) = Len(results)
        /\ \A i \in 1..Len(results) :
              /\ ~calls[i].raised
              /\ results[i]["prompt"] = calls[i].prompt
              /\ HyperPart(results[i], HSpace) = calls[i].hyperparams
              /\ results[i]["output"] = calls[i].value
        /\ pc = "returned" => Returned = results

\* a run whose producer answers every call differently returned four records
C7_Witness ==
    /\ pc = "returned"
    /\ producer = "llm"
    /\ Len(Returned) = 4
    /\ Len(calls) = 4
    /\ \A i, j \in 1..4 : i # j => Returned[i]["output"] # Returned[j]["output"]

----------------------------------------------------------------------------
\* the template references a slot the prompt space does not bind
Unbound ==
    /\ exp # None
    /\ ~(SlotNames(self.template_prompt) \subseteq ParamNames(PSpace))

ValidModes ==
    /\ self.prompt_mode \in {"monte_carlo", "factorial"}
    /\ self.hyper_mode \in {"monte_carlo", "factorial"}

NoEmptyList(space) == \A i \in 1..Len(space) : space[i].values # <<>>

\* the configuration makes run_experiments render a prompt: the factorial
\* prompt loop has a binding to take, or the monte_carlo prompt loop has an
\* iteration to run in which the prompt binding can be drawn
RendersAPrompt ==
    IF self.prompt_mode = "factorial" THEN Cardinal(PSpace) >= 1
    ELSE /\ self.N >= 1
         /\ NoEmptyList(PSpace)
         /\ self.hyper_mode = "factorial" => Cardinal(HSpace) >= 1

C9_ProducerErrorAbortsTheRun ==
    \A k \in 1..Len(calls) :
        calls[k].raised =>
            /\ k = Len(calls)
            /\ pc = "raised"
            /\ err = "ProducerError"
            /\ ret = None

\* the producer raised on the third condition of a run
C9_Witness ==
    /\ Len(calls) = 3
    /\ calls[3].raised
    /\ ~calls[1].raised /\ ~calls[2].raised
    /\ pc = "raised"

----------------------------------------------------------------------------
(* C10: flatten_results(prompt, prompt_params, hyperparams, response)      *)
(* returns a mapping whose keys are exactly prompt, output, param_<name>   *)
(* for each name of prompt_params and hyper_<name> for each name of        *)
(* hyperparams; prompt holds the rendered prompt, output the response,     *)
(* and each param_ / hyper_ key the value bound to its name.               *)
C10_FlattenKeysAndValues ==
    flat_result # None =>
        LET a == The(flat_args)
            r == The(flat_result)
        IN /\ DOMAIN r = {"prompt", "output"}
                            \cup {"param_" \o n : n \in DOMAIN a.prompt_params}
                            \cup {"hyper_" \o n : n \in DOMAIN a.hyperparams}
           /\ r["prompt"] = a.prompt
           /\ r["output"] = a.response
           /\ \A n \in DOMAIN a.prompt_params : r["param_" \o n] = a.prompt_params[n]
           /\ \A n \in DOMAIN a.hyperparams : r["hyper_" \o n] = a.hyperparams[n]

\* a flattened condition whose two bindings share a name and bind it differently
C10_Witness ==
    /\ flat_result # None
    /\ DOMAIN The(flat_args).prompt_params = {"tone", "prompt"}
    /\ DOMAIN The(flat_args).hyperparams = {"tone", "output"}
    /\ The(flat_args).prompt_params["tone"] # The(flat_args).hyperparams["tone"]
    /\ Cardinality(DOMAIN The(flat_result)) = 6

----------------------------------------------------------------------------
\* the keys of every record of an experiment over the two spaces
Schema(pspace, hspace) ==
    {"prompt", "output"}
        \cup {"param_" \o n : n \in ParamNames(pspace)}
        \cup {"hyper_" \o n : n \in ParamNames(hspace)}

(* C11: schema uniformity. Every record run_experiments builds, in the     *)
(* list it is filling and in the list it returns, has the same key set,    *)
(* and that key set is fixed by the two parameter spaces alone: it is the  *)
(* same under all four combinations of prompt_mode and hyper_mode.         *)
C11_SchemaUniformity ==
    exp # None =>
        /\ \A k \in 1..Len(results) : DOMAIN results[k] = Schema(PSpace, HSpace)
        /\ ret # None =>
              \A k \in 1..Len(Returned) : DOMAIN Returned[k] = Schema(PSpace, HSpace)

\* a run over two two-parameter spaces returned several records, six keys each
C11_Witness ==
    /\ pc = "returned"
    /\ Len(Returned) >= 2
    /\ Len(PSpace) = 2
    /\ Len(HSpace) = 2
    /\ Cardinality(DOMAIN Returned[1]) = 6
    /\ DOMAIN Returned[Len(Returned)] = DOMAIN Returned[1]

----------------------------------------------------------------------------
\* the list a call logged at position k of gen returned
Generated_list(k) == The(gen[k].value)

\* the number of passes of `for _ in range(self.N)`
Passes == IF self.N < 0 THEN 0 ELSE self.N

(* C12: every binding random_params draws binds every parameter of its     *)
(* space to a member of that parameter's candidate list, in the list       *)
(* generate_hyperparameters returns and in the records run_experiments     *)
(* builds; the draws are with replacement and nothing is deduplicated: a   *)
(* monte_carlo generate_hyperparameters that returns holds one binding for *)
(* each of its N passes, also when N exceeds the cardinality of the space. *)
C12_RandomBindingsAreFullAndKept ==
    exp # None =>
        /\ \A k \in 1..Len(gen) :
              (/\ gen[k].method = "generate_hyperparameters"
               /\ self.hyper_mode = "monte_carlo"
               /\ gen[k].err = "")
              => /\ gen[k].value # None
                 /\ Len(Generated_list(k)) = Passes
                 /\ \A i \in 1..Len(Generated_list(k)) :
                       Generated_list(k)[i] \in AllBindings(HSpace)
        /\ self.prompt_mode = "monte_carlo" =>
              \A k \in 1..Len(results) :
                  ParamPart(results[k], PSpace) \in AllBindings(PSpace)
        /\ self.hyper_mode = "monte_carlo" =>
              \A k \in 1..Len(results) :
                  HyperPart(results[k], HSpace) \in AllBindings(HSpace)

\* two bindings drawn from a hyperparameter space that has only one
C12_Witness ==
    /\ exp # None
    /\ self.hyper_mode = "monte_carlo"
    /\ self.N = 2
    /\ Len(HSpace) >= 1
    /\ Cardinal(HSpace) = 1
    /\ \E k \in 1..Len(gen) :
          /\ gen[k].method = "generate_hyperparameters"
          /\ gen[k].err = ""
          /\ Len(Generated_list(k)) = 2
          /\ Generated_list(k)[1] = Generated_list(k)[2]

----------------------------------------------------------------------------
\* the candidate the k-th draw (k >= 1) made since the seeding picks when it
\* is made for the j-th declared parameter of the space
DrawnValue(space, j, k) ==
    space[j].values[choice_index(StateAfter(seed_state(self.seed), k),
                                 Len(space[j].values))]

\* record r carries, for each declared parameter j of the space, the value
\* of draw number base + j
DrawnInOrder(r, prefix, space, base) ==
    \A j \in 1..Len(space) :
        r[prefix \o space[j].name] = DrawnValue(space, j, base + j)

(* C13: the random stream is consumed in a fixed order: one draw for each  *)
(* parameter, in declared order, inside a binding, and the bindings in     *)
(* record order.  In monte_carlo x monte_carlo every iteration draws its   *)
(* whole prompt binding and then its whole hyperparameter binding; in      *)
(* factorial x monte_carlo every record draws one hyperparameter binding;  *)
(* in monte_carlo x factorial every record draws one prompt binding.  So   *)
(* the k-th value taken from the stream since the seeding always lands at  *)
(* the same (record, space, parameter) position, and the stream stands     *)
(* draws steps after the seed.                                             *)
C13_StreamConsumedInFixedOrder ==
    exp # None =>
        LET np == Len(PSpace)
            nh == Len(HSpace)
        IN /\ rng = StateAfter(seed_state(self.seed), draws)
           /\ Modes2("monte_carlo", "monte_carlo") =>
                 /\ pc \in {"running", "returned"} => draws = Len(results) * (np + nh)
                 /\ \A k \in 1..Len(results) :
                       /\ DrawnInOrder(results[k], "param_", PSpace,
                                       (k - 1) * (np + nh))
                       /\ DrawnInOrder(results[k], "hyper_", HSpace,
                                       (k - 1) * (np + nh) + np)
           /\ Modes2("factorial", "monte_carlo") =>
                 /\ pc \in {"running", "returned"} => draws = Len(results) * nh
                 /\ \A k \in 1..Len(results) :
                       DrawnInOrder(results[k], "hyper_", HSpace, (k - 1) * nh)
           /\ Modes2("monte_carlo", "factorial") =>
                 /\ pc \in {"running", "returned"} => draws = Len(results) * np
                 /\ \A k \in 1..Len(results) :
                       DrawnInOrder(results[k], "param_", PSpace, (k - 1) * np)

\* two iterations of monte_carlo x monte_carlo over two two-parameter
\* spaces: eight draws, four for each record
C13_Witness ==
    /\ ReturnedIn("monte_carlo", "monte_carlo")
    /\ Len(PSpace) = 2
    /\ Len(HSpace) = 2
    /\ Len(Returned) = 2
    /\ draws = 8
    /\ Returned[1] # Returned[2]

----------------------------------------------------------------------------
\* N is used: one of the two modes is monte_carlo
SamplesN ==
    self.prompt_mode = "monte_carlo" \/ self.hyper_mode = "monte_carlo"

(* C14: a negative N is rejected: constructing an experiment with N < 0    *)
(* and at least one monte_carlo mode fails at construction, so no          *)
(* experiment with such an N exists, and none is run to return an empty    *)
(* or shortened list.                                                      *)
C14_NegativeCountRejected ==
    exp # None => ~(self.N < 0 /\ SamplesN)

(* C15: a space with an empty candidate list is rejected at construction,  *)
(* for both spaces and both modes: no constructed experiment, and so no    *)
(* call of run_experiments, has a parameter without candidates.            *)
C15_EmptyCandidateListRejected ==
    exp # None => NoEmptyList(PSpace) /\ NoEmptyList(HSpace)

\* names the flattened record uses for itself
ReservedNames == {"prompt", "output"}

(* C16: a space that uses a reserved name (prompt, output) is rejected at  *)
(* construction: no constructed experiment holds a parameter of such a     *)
(* name, one built from a plain list of prompts included.                  *)
C16_ReservedNameRejected ==
    exp # None =>
        /\ ParamNames(PSpace) \cap ReservedNames = {}
        /\ ParamNames(HSpace) \cap ReservedNames = {}

----------------------------------------------------------------------------
(* C17: no flattened key ever collides.  For p distinct prompt parameter   *)
(* names and h distinct hyperparameter names, whatever they are (prompt,   *)
(* output and a name the two bindings share included), flatten_results     *)
(* returns a mapping of exactly 2 + p + h keys, and its prompt and output  *)
(* entries are the rendered prompt and the response, never overwritten by  *)
(* a parameter.                                                            *)
C17_NoFlattenedKeyCollides ==
    flat_result # None =>
        LET a == The(flat_args)
            r == The(flat_result)
        IN /\ Cardinality(DOMAIN r) = 2 + Cardinality(DOMAIN a.prompt_params)
                                         + Cardinality(DOMAIN a.hyperparams)
           /\ r["prompt"] = a.prompt
           /\ r["output"] = a.response

\* both bindings name prompt, output and tone: eight keys, and the values
\* bound to prompt and output differ from the rendered prompt and the response
C17_Witness ==
    /\ flat_result # None
    /\ DOMAIN The(flat_args).prompt_params = {"tone", "prompt", "output"}
    /\ DOMAIN The(flat_args).hyperparams = {"tone", "prompt", "output"}
    /\ The(flat_args).prompt_params["prompt"] # The(flat_args).prompt
    /\ The(flat_args).hyperparams["output"] # The(flat_args).response
    /\ Cardinality(DOMAIN The(flat_result)) = 8

----------------------------------------------------------------------------
(* C18: experiments do not interfere through random state.  Experiment A   *)
(* draws, condition for condition, the bindings it draws when it is the    *)
(* only experiment of its process, and returns the same records, whether   *)
(* or not another experiment B with a seed of its own is constructed in    *)
(* the same process, before or after A.                                    *)
C18_ExperimentsDoNotInterfere ==
    (first # None /\ exp # None) =>
        LET alone == The(first)
            both == Shorter(Len(calls), Len(alone.calls))
        IN /\ \A k \in 1..both :
                 /\ calls[k].prompt = alone.calls[k].prompt
                 /\ calls[k].hyperparams = alone.calls[k].hyperparams
           /\ pc = "returned" => ret = alone.ret

----------------------------------------------------------------------------
(* C19: the configuration is read-only after construction.  No step of     *)
(* run_experiments (with the random_params, factorial_params and           *)
(* flatten_results it calls), no call of generate_prompts and no call of   *)
(* generate_hyperparameters changes template_prompt, prompt_parameters,    *)
(* hyperparameters, N, prompt_mode, hyper_mode or seed of the constructed  *)
(* experiment.                                                             *)
C19_ConfigurationReadOnly ==
    [][exp # None => exp' = exp]_vars

\* both list builders were called and a run returned records, the stream
\* moved on from the seed, on an experiment that still has its attributes
C19_Witness ==
    /\ pc = "returned"
    /\ Called("generate_prompts")
    /\ Called("generate_hyperparameters")
    /\ Len(Returned) >= 2
    /\ draws >= 4
    /\ rng # seed_state(self.seed)
    /\ self.N = 2

----------------------------------------------------------------------------
(* C20: flatten_results is pure.  A call leaves the mappings it was passed *)
(* as they were and does not move the random stream, and therefore a       *)
(* second call on the same prompt, prompt_params, hyperparams and response *)
(* returns a record equal to the one the first call returned.              *)
C20_FlattenIsPure ==
    [][/\ flat_args' = flat_args
       /\ rng' = rng
       /\ \A k \in 1..Len(flat_result') : flat_result'[k] = flat_result'[1]]_vars

\* flatten_results was called twice on two bindings of three names each
C20_Witness ==
    /\ Len(flat_result) = 2
    /\ DOMAIN The(flat_args).prompt_params = {"tone", "prompt", "output"}
    /\ DOMAIN The(flat_args).hyperparams = {"tone", "prompt", "output"}
    /\ flat_result[2] = flat_result[1]
    /\ rng \in Unseeded

----------------------------------------------------------------------------
(* C21: constructing a PromptExperiment without a list of prompts requires *)
(* both a template prompt and prompt parameters: when one of them is None  *)
(* the construction fails, so no experiment object holds None as its       *)
(* template_prompt or as its prompt_parameters.                            *)
C21_TemplateAndParametersRequired ==
    exp # None =>
        /\ self.template_prompt # NoneTemplate
        /\ self.prompt_parameters # NoneSpace

----------------------------------------------------------------------------
(* 2_make_llm_ideas.py: generate_responses and safe_completion.            *)
(*                                                                         *)
(* llm is the state of one call of generate_responses(tasks, models,       *)
(* num_completions): its arguments, the indices (t, m, k) of the condition *)
(* the three loops stand at, new_data, the failures its except clause      *)
(* wrote to the log, the conditions it called safe_completion for, and     *)
(* the state of the call of safe_completion in progress: the attempts the  *)
(* retry decorator made so far and how the call ended.                     *)

\* no PromptExperiment is used by the process of a script
NoExperiment ==
    /\ rng = 0
    /\ exp = None
    /\ producer = "placeholder"
    /\ pc = "new"
    /\ outer = 0
    /\ inner = 0
    /\ prompt = None
    /\ results = <<>>
    /\ calls = <<>>
    /\ draws = 0
    /\ ret = None
    /\ err = ""
    /\ first = None
    /\ flat_args = None
    /\ flat_result = None
    /\ gen = <<>>
    /\ other = None

TaskPool ==
    <<[category |-> "startup", prompt |-> "Return a one-line startup idea"],
      [category |-> "oped", prompt |-> "Return a headline for an op-ed"]>>
ModelPool == <<"gpt-4", "claude-3-opus">>

\* what one call of litellm's completion can do: return a response, raise
\* RateLimitError, or raise another error
Outcomes == {"response", "RateLimitError", "APIError"}

InitLLM ==
    /\ NoExperiment
    /\ html = None /\ csv = None /\ fiction = None /\ osf = None /\ nyt = None
    /\ llm \in {Some([tasks |-> SubSeq(TaskPool, 1, nt),
                      models |-> SubSeq(ModelPool, 1, nm),
                      num_completions |-> nc,
                      pc |-> "loops", t |-> 1, m |-> 1, k |-> 0,
                      new_data |-> <<>>, counter |-> 0, failed |-> <<>>,
                      attempted |-> <<>>,
                      attempt |-> 0, last |-> "", result |-> None,
                      ret |-> None]) :
                    nt \in 0..Len(TaskPool), nm \in 0..Len(ModelPool),
                    nc \in 0..MaxCompletions}

L == The(llm)

\* the loops of lines 51-53 have a condition (t, m, k) left
MoreConditions ==
    /\ L.t <= Len(L.tasks)
    /\ Len(L.models) > 0
    /\ L.num_completions > 0

\* the indices after the condition (t, m, k): the innermost loop turns fastest
Advanced(l) ==
    IF l.k + 1 < l.num_completions THEN [l EXCEPT !.k = l.k + 1]
    ELSE IF l.m < Len(l.models) THEN [l EXCEPT !.k = 0, !.m = l.m + 1]
    ELSE [l EXCEPT !.k = 0, !.m = 1, !.t = l.t + 1]

\* line 55: the try block of the condition (t, m, k) calls safe_completion
CallSafeCompletion ==
    /\ llm # None
    /\ L.pc = "loops"
    /\ MoreConditions
    /\ llm' = Some([L EXCEPT !.pc = "safe_completion",
                             !.attempted = Append(L.attempted,
                                                  [task |-> L.t, model |-> L.m,
                                                   index |-> L.k]),
                             !.attempt = 0, !.last = "", !.result = None])
    /\ UNCHANGED <<experiment, html, csv, fiction, osf, nyt>>

\* calls of safe_completion that ended in an exception so far
Failures == Len(L.failed)

\* the response text of a call: each call gets a text of its own
ResponseText == "idea " \o ToString(Len(L.attempted))

\* safe_completion with the decorator retrying on every exception:
\* @retry(wait=wait_fixed(60), stop=stop_after_attempt(10))
safe_completion_retry_any(outcome) ==
    /\ llm # None
    /\ L.pc = "safe_completion"
    /\ L.result = None
    /\ L.attempt < StopAfterAttempt
    /\ outcome = "response" \/ L.attempt + 1 < StopAfterAttempt
                            \/ Failures < MaxFailures
    /\ llm' = Some([L EXCEPT
            !.attempt = L.attempt + 1,
            !.last = IF outcome = "response" THEN "" ELSE outcome,
            !.result =
                IF outcome = "response"
                THEN Some([ok |-> TRUE, value |-> ResponseText])
                ELSE IF L.attempt + 1 < StopAfterAttempt THEN None
                ELSE Some([ok |-> FALSE, value |-> "RetryError"])])
    /\ UNCHANGED <<experiment, html, csv, fiction, osf, nyt>>

\* lines 27-42: one attempt of safe_completion under its decorator
\* @retry(retry=retry_if_exception_type(RateLimitError), wait=wait_fixed(60),
\*        stop=stop_after_attempt(10)).
\* The body returns the response text or re-raises what completion raised; a
\* RateLimitError is retried after the wait until the tenth attempt, after
\* which the decorator raises RetryError; any other exception leaves the
\* call at once.
safe_completion(outcome) ==
    /\ llm # None
    /\ L.pc = "safe_completion"
    /\ L.result = None
    /\ L.attempt < StopAfterAttempt
    /\ \/ outcome = "response"
       \/ outcome = "RateLimitError" /\ L.attempt + 1 < StopAfterAttempt
       \/ Failures < MaxFailures
    /\ llm' = Some([L EXCEPT
            !.attempt = L.attempt + 1,
            !.last = IF outcome = "response" THEN "" ELSE outcome,
            !.result =
                IF outcome = "response"
                THEN Some([ok |-> TRUE, value |-> ResponseText])
                ELSE IF outcome = "RateLimitError"
                THEN IF L.attempt + 1 < StopAfterAttempt THEN None
                     ELSE Some([ok |-> FALSE, value |-> "RetryError"])
                ELSE Some([ok |-> FALSE, value |-> outcome])])
    /\ UNCHANGED <<experiment, html, csv, fiction, osf, nyt>>

\* lines 56-65: safe_completion returned, the record is appended
AppendResponse ==
    /\ llm # None
    /\ L.pc = "safe_completion"
    /\ L.result # None
    /\ The(L.result).ok
    /\ LET model == L.models[L.m]
           task == L.tasks[L.t]
       IN llm' = Some([Advanced(L) EXCEPT
              !.pc = "loops",
              !.new_data = Append(L.new_data,
                  [model |-> model, category |-> task.category,
                   output |-> The(L.result).value,
                   dataset_id |-> model \o "_" \o task.category \o "_"
                                    \o ToString(L.k)]),
              !.counter = L.counter + 1,
              !.result = None, !.attempt = 0, !.last = ""])
    /\ UNCHANGED <<experiment, html, csv, fiction, osf, nyt>>

\* generate_responses without its try: the exception of safe_completion
\* leaves generate_responses, and nothing is returned
LogFailure_fail_fast ==
    /\ llm # None
    /\ L.pc = "safe_completion"
    /\ L.result # None
    /\ ~The(L.result).ok
    /\ llm' = Some([L EXCEPT !.pc = "raised", !.result = None, !.attempt = 0,
                             !.last = ""])
    /\ UNCHANGED <<experiment, html, csv, fiction, osf, nyt>>

\* lines 66-67: safe_completion raised, the except clause logs the failure
\* with the category, the model and the text of the error; the loops go on
LogFailure ==
    /\ llm # None
    /\ L.pc = "safe_completion"
    /\ L.result # None
    /\ ~The(L.result).ok
    /\ llm' = Some([Advanced(L) EXCEPT
            !.pc = "loops",
            !.failed = Append(L.failed,
                [category |-> L.tasks[L.t].category, model |-> L.models[L.m],
                 error |-> The(L.result).value]),
            !.result = None, !.attempt = 0, !.last = ""])
    /\ UNCHANGED <<experiment, html, csv, fiction, osf, nyt>>

\* line 68: return new_data
ReturnNewData ==
    /\ llm # None
    /\ L.pc = "loops"
    /\ ~MoreConditions
    /\ llm' = Some([L EXCEPT !.pc = "returned", !.ret = Some(L.new_data)])
    /\ UNCHANGED <<experiment, html, csv, fiction, osf, nyt>>

Attempt == \E outcome \in Outcomes : safe_completion(outcome)

NextLLM ==
    \/ CallSafeCompletion
    \/ Attempt
    \/ AppendResponse
    \/ LogFailure
    \/ ReturnNewData

SpecLLM == InitLLM /\ [][NextLLM]_vars

\* completion returns or raises, and the decorator wakes up from its wait:
\* an attempt that is due is made
SpecLLMFair == SpecLLM /\ WF_vars(Attempt)

----------------------------------------------------------------------------
\* total_tasks = len(tasks) * len(models) * num_completions
TotalConditions == Len(L.tasks) * Len(L.models) * L.num_completions

\* the i-th condition (i >= 1) in task, model, completion index order
ConditionAt(i) ==
    LET nm == Len(L.models)
        nc == L.num_completions
    IN [task |-> ((i - 1) \div (nm * nc)) + 1,
        model |-> (((i - 1) \div nc) % nm) + 1,
        index |-> (i - 1) % nc]

\* the conditions whose call of safe_completion is over
Finished ==
    Len(L.attempted) - (IF L.pc = "safe_completion" THEN 1 ELSE 0)

\* new_data holds the record of the condition c
Recorded(c) ==
    \E j \in 1..Len(L.new_data) :
        L.new_data[j].dataset_id =
            L.models[c.model] \o "_" \o L.tasks[c.task].category \o "_"
                \o ToString(c.index)

(* C22: continue-on-error in generate_responses.  A failing call of        *)
(* safe_completion never ends the run: the conditions are attempted in     *)
(* task, model, completion index order, each once, and when the run        *)
(* returns all len(tasks) * len(models) * num_completions of them have     *)
(* been attempted.  Every condition whose call is over either has its      *)
(* record in new_data or was logged as failed by the except clause, with   *)
(* its category, its model and the error raised.                           *)
C22_ContinueOnError ==
    llm # None =>
        /\ L.pc \in {"loops", "safe_completion", "returned"}
        /\ Len(L.attempted) <= TotalConditions
        /\ \A i \in 1..Len(L.attempted) : L.attempted[i] = ConditionAt(i)
        /\ L.pc = "returned" =>
              /\ Len(L.attempted) = TotalConditions
              /\ L.ret = Some(L.new_data)
        /\ Len(L.new_data) + Len(L.failed) = Finished
        /\ \A j \in 1..Len(L.failed) :
              L.failed[j].error \in {"RetryError", "APIError"}
        /\ \A t \in 1..Len(L.tasks), m \in 1..Len(L.models) :
              Cardinality({j \in 1..Len(L.failed) :
                              /\ L.failed[j].category = L.tasks[t].category
                              /\ L.failed[j].model = L.models[m]})
                = Cardinality({i \in 1..Finished :
                                  /\ L.attempted[i].task = t
                                  /\ L.attempted[i].model = m
                                  /\ ~Recorded(L.attempted[i])})

\* a run over 2 x 2 x 2 conditions returned seven records: the call for the
\* third condition failed, the five conditions after it were still attempted
C22_Witness ==
    /\ llm # None
    /\ L.pc = "returned"
    /\ TotalConditions = 8
    /\ Len(L.attempted) = 8
    /\ Len(L.new_data) = 7
    /\ Len(L.failed) = 1
    /\ ~Recorded(ConditionAt(3))
    /\ Recorded(ConditionAt(8))

----------------------------------------------------------------------------
\* a call of safe_completion is in progress / is over
InSafeCompletion == llm # None /\ L.pc = "safe_completion" /\ L.result = None
SafeCompletionEnded == llm # None /\ L.pc = "safe_completion" /\ L.result # None

(* C23: the retry policy of safe_completion is bounded and limited to      *)
(* rate-limit errors.  A call makes at most 10 attempts; an attempt is     *)
(* repeated only after a RateLimitError; any other error leaves the call   *)
(* at the attempt that met it, raised to the caller as it is; and every    *)
(* call ends: in a returned response text, or in a raised error (the       *)
(* RetryError of the decorator after a tenth rate-limited attempt).        *)
C23_BoundedRetryOnRateLimitOnly ==
    /\ [](llm # None =>
            /\ L.attempt <= StopAfterAttempt
            /\ (L.last \notin {"", "RateLimitError"}) =>
                   L.result = Some([ok |-> FALSE, value |-> L.last])
            /\ L.result # None =>
                   \/ The(L.result).ok /\ L.last = ""
                   \/ /\ The(L.result) = [ok |-> FALSE, value |-> "RetryError"]
                      /\ L.last = "RateLimitError"
                      /\ L.attempt = StopAfterAttempt
                   \/ /\ ~The(L.result).ok
                      /\ The(L.result).value = L.last
                      /\ L.last # "RateLimitError")
    /\ [][(InSafeCompletion /\ L.attempt >= 1 /\ llm' # llm)
             => L.last = "RateLimitError"]_vars
    /\ (InSafeCompletion ~> SafeCompletionEnded)

\* a call that met the rate limit ten times ended in the decorator's error
C23_Witness ==
    /\ SafeCompletionEnded
    /\ L.attempt = StopAfterAttempt
    /\ The(L.result) = [ok |-> FALSE, value |-> "RetryError"]

----------------------------------------------------------------------------
(* fetch_startups.py (and fetch_startup_data.py, which has the same        *)
(* fetch_html and the same caller): fetch_product_hunt_data_for_date is    *)
(* submitted once for every day of the date range, the calls run in        *)
(* parallel.  html maps each day to the state of its call: where it is,    *)
(* the attempts fetch_html made, the exception of the last attempt, what   *)
(* fetch_html returned and what the caller returned.                       *)

Days == 1..MaxDays

\* what one pass of the body of fetch_html can meet: a page with product
\* data, a page without, an empty body, an HTTP error status
\* (raise_for_status), or a failing connection (requests.get)
Responses == {"products", "no products", "empty", "HTTPError", "ConnectionError"}

PageText(d, response) ==
    CASE response = "products" ->
            "<script id=__NEXT_DATA__>day " \o ToString(d) \o "</script>"
      [] response = "no products" -> "<html>day " \o ToString(d) \o "</html>"
      [] OTHER -> ""

InitHTML ==
    /\ NoExperiment
    /\ llm = None /\ csv = None /\ fiction = None /\ osf = None /\ nyt = None
    /\ html = Some([d \in Days |->
                       [pc |-> "submitted", attempt |-> 0, last |-> "",
                        html_content |-> None, ret |-> None]])

H(d) == The(html)[d]

HtmlStep(d, new) ==
    /\ html' = Some([The(html) EXCEPT ![d] = new])
    /\ UNCHANGED <<experiment, llm, csv, fiction, osf, nyt>>

\* lines 75-83: the call for day d starts and calls fetch_html(url)
CallFetchHtml(d) ==
    /\ html # None
    /\ H(d).pc = "submitted"
    /\ HtmlStep(d, [H(d) EXCEPT !.pc = "fetch_html"])

\* lines 23-36: one attempt of fetch_html under its decorator
\* @retry(wait=wait_fixed(300), stop=stop_after_attempt(3)): every exception
\* is retried after the wait; after the third failed attempt the decorator
\* raises RetryError, which leaves fetch_product_hunt_data_for_date too
fetch_html(d, response) ==
    /\ html # None
    /\ H(d).pc = "fetch_html"
    /\ H(d).attempt < FetchAttempts
    /\ HtmlStep(d,
          IF response \in {"HTTPError", "ConnectionError"}
          THEN IF H(d).attempt + 1 < FetchAttempts
               THEN [H(d) EXCEPT !.attempt = H(d).attempt + 1, !.last = response]
               ELSE [H(d) EXCEPT !.attempt = H(d).attempt + 1, !.last = response,
                                 !.pc = "raised"]
          ELSE [H(d) EXCEPT !.attempt = H(d).attempt + 1, !.last = "",
                            !.pc = "fetched",
                            !.html_content = Some(PageText(d, response))])

\* lines 84-105: `if not html_content: return []`, else the page is parsed
\* and the products found are returned with the date
ReturnProducts(d) ==
    /\ html # None
    /\ H(d).pc = "fetched"
    /\ LET text == The(H(d).html_content)
       IN HtmlStep(d, [H(d) EXCEPT
              !.pc = "returned",
              !.ret = Some(IF text = PageText(d, "products")
                           THEN <<[name |-> "product of day " \o ToString(d),
                                   date |-> d]>>
                           ELSE <<>>)])

NextHTML ==
    \E d \in Days :
        \/ CallFetchHtml(d)
        \/ \E response \in Responses : fetch_html(d, response)
        \/ ReturnProducts(d)

SpecHTML == InitHTML /\ [][NextHTML]_vars

(* C24: fetch_html returns the HTML text of the page when a request        *)
(* succeeds and returns None, without raising, when an error occurs, after *)
(* at most 3 attempts; fetch_product_hunt_data_for_date then returns an    *)
(* empty list for that date.                                               *)
C24_FetchHtmlReturnsNoneOnError ==
    html # None =>
        \A d \in Days :
            /\ H(d).attempt <= FetchAttempts
            /\ H(d).pc # "raised"
            /\ (H(d).pc = "returned" /\ H(d).last # "") => H(d).ret = Some(<<>>)
            /\ (H(d).pc \in {"fetched", "returned"} /\ H(d).last = "") =>
                   \E response \in Responses :
                       H(d).html_content = Some(PageText(d, response))

----------------------------------------------------------------------------
(* system_result_generator.py (and refactored_code/responses_generator.py, *)
(* which has the same function): save_responses(new_data, csv_path).       *)
(*                                                                         *)
(* The file is text: a header and rows of three fields.  A cell of a       *)
(* DataFrame is a string or the missing value NaN.  read_csv turns a field *)
(* into a cell and to_csv a cell into a field, and the two are not         *)
(* inverse: an empty field, and a field spelling a missing value, read as  *)
(* NaN, and NaN is written as the empty field.                             *)

Str(t) == [kind |-> "str", text |-> t]
NaN == [kind |-> "NaN", text |-> ""]

\* fields pandas reads as missing (a part of its default na_values)
NaValues == {"", "NA", "NaN", "null"}

\* pd.read_csv, one field
read_field(field) == IF field \in NaValues THEN NaN ELSE Str(field)

\* DataFrame.to_csv, one cell (na_rep is the empty string)
write_cell(cell) == IF cell.kind = "NaN" THEN "" ELSE cell.text

read_row(row) ==
    [model |-> read_field(row.model), category |-> read_field(row.category),
     output |-> read_field(row.output)]

write_row(r) ==
    [model |-> write_cell(r.model), category |-> write_cell(r.category),
     output |-> write_cell(r.output)]

\* pd.DataFrame(new_data): the strings of the records as they are
frame_row(record) ==
    [model |-> Str(record.model), category |-> Str(record.category),
     output |-> Str(record.output)]

\* drop_duplicates(['model', 'category', 'output']): the first of equal rows
\* is kept, NaN counting as equal to NaN and to nothing else
RECURSIVE drop_duplicates(_)
drop_duplicates(rows) ==
    IF rows = <<>> THEN <<>>
    ELSE LET n == Len(rows)
             front == drop_duplicates(SubSeq(rows, 1, n - 1))
         IN IF \E k \in 1..(n - 1) : rows[k] = rows[n]
            THEN front ELSE Append(front, rows[n])

\* the records generate_responses can build: the output is what the model
\* answered, cut to the word count; an empty answer gives the empty string
ResponseRecords ==
    [model : {"gpt-4"}, category : {"op-ed"},
     output : {"Tax the robots", "", "NA"}]

Batches == UNION {[1..n -> ResponseRecords] : n \in 0..MaxBatch}

\* the file before the first call: absent, or written by an earlier run
InitCSV ==
    /\ NoExperiment
    /\ llm = None /\ html = None /\ fiction = None /\ osf = None /\ nyt = None
    /\ csv \in {Some([file |-> f, saves |-> 0, seen |-> {},
                      before |-> None, last |-> None, again |-> FALSE]) :
                    f \in {None} \cup {Some(<<>>)}
                          \cup {Some(<<r>>) : r \in ResponseRecords}}

C == The(csv)

\* the rows of the file as read_csv gives them; FileNotFoundError gives the
\* empty frame
existing_df == IF C.file = None THEN <<>>
               ELSE [k \in 1..Len(The(C.file)) |-> read_row(The(C.file)[k])]

FileRows(f) == IF f = None THEN {} ELSE Range(The(f))

\* lines 49-63: save_responses(new_data)
save_responses(new_data) ==
    /\ csv # None
    /\ C.saves < MaxSaves
    /\ LET new_df == [k \in 1..Len(new_data) |-> frame_row(new_data[k])]
           updated_df == drop_duplicates(existing_df \o new_df)
           written == [k \in 1..Len(updated_df) |-> write_row(updated_df[k])]
       IN csv' = Some([file |-> Some(written),
                       saves |-> C.saves + 1,
                       seen |-> C.seen \cup FileRows(C.file) \cup Range(new_data),
                       before |-> Some(C.file),
                       last |-> Some(new_data),
                       again |-> C.last = Some(new_data)])
    /\ UNCHANGED <<experiment, llm, html, fiction, osf, nyt>>

NextCSV == \E new_data \in Batches : save_responses(new_data)

SpecCSV == InitCSV /\ [][NextCSV]_vars

(* C25: after any sequence of save_responses calls the CSV holds no two    *)
(* rows with the same (model, category, output) triple, every triple that  *)
(* was in the file or in a saved batch is still in it, and saving the same *)
(* batch a second time leaves the set of rows of the file unchanged.       *)
C25_SavedRowsAreUnique ==
    (csv # None /\ C.saves >= 1) =>
        LET rows == The(C.file)
        IN /\ \A i, j \in 1..Len(rows) : rows[i] = rows[j] => i = j
           /\ C.seen \cup Range(The(C.last)) \subseteq Range(rows)
           /\ C.again => Range(rows) = FileRows(The(C.before))

----------------------------------------------------------------------------
(* fetch_fiction.py: generate_urls(start_date, end_date, max_pages).       *)
(*                                                                         *)
(* A date is the text YYYY-MM-DD, a sequence of characters; generate_urls  *)
(* splits it at the dashes and reads the fields as integers.  A URL is     *)
(* known by the three values formatted into it.                            *)

DigitChars == <<"0", "1", "2", "3", "4", "5", "6", "7", "8", "9">>

\* str(n) padded to width characters, as %Y, %m and %d write it
RECURSIVE Padded(_, _)
Padded(n, width) ==
    IF width = 0 THEN <<>>
    ELSE Append(Padded(n \div 10, width - 1), DigitChars[(n % 10) + 1])

DateText(year, month, day) ==
    Padded(year, 4) \o <<"-">> \o Padded(month, 2) \o <<"-">> \o Padded(day, 2)

\* str.split('-')
RECURSIVE split(_)
split(text) ==
    IF text = <<>> THEN << <<>> >>
    ELSE LET n == Len(text)
             front == split(SubSeq(text, 1, n - 1))
             k == Len(front)
         IN IF text[n] = "-" THEN Append(front, <<>>)
            ELSE [front EXCEPT ![k] = Append(front[k], text[n])]

\* int(text) of a text of decimal digits
RECURSIVE int(_)
int(text) ==
    IF text = <<>> THEN 0
    ELSE LET n == Len(text)
             d == CHOOSE v \in 0..9 : DigitChars[v + 1] = text[n]
         IN 10 * int(SubSeq(text, 1, n - 1)) + d

months ==
    <<"jan", "feb", "mar", "apr", "may", "jun", "jul", "aug", "sep", "oct",
      "nov", "dec">>

\* line 34: the URL of a page of a month
Url(month, year, pg) == [date |-> <<month, year>>, s |-> pg]

\* range(a, b) as a sequence
range(a, b) == [k \in 1..(IF b > a THEN b - a ELSE 0) |-> a + k - 1]

\* lines 22-36
generate_urls(start_date, end_date, max_pages) ==
    LET start_year == int(split(start_date)[1])
        start_month == int(split(start_date)[2])
        end_year == int(split(end_date)[1])
        end_month == int(split(end_date)[2])
        OfMonth(year, m) ==
            LET pgs == range(1, max_pages)
            IN [k \in 1..Len(pgs) |-> Url(months[m], year, pgs[k])]
        OfYear(year) ==
            LET start_m == IF year = start_year THEN start_month ELSE 1
                end_m == IF year = end_year THEN end_month ELSE 12
                ms == range(start_m, end_m + 1)
            IN Flatten([k \in 1..Len(ms) |-> OfMonth(year, ms[k])])
        years == range(start_year, end_year + 1)
    IN Flatten([k \in 1..Len(years) |-> OfYear(years[k])])

Years == FirstYear..(FirstYear + MaxYears - 1)

\* lines 96-98: the arguments of the command line
InitFiction ==
    /\ NoExperiment
    /\ llm = None /\ html = None /\ csv = None /\ osf = None /\ nyt = None
    /\ fiction \in {Some([start_date |-> DateText(sy, sm, 1),
                          end_date |-> DateText(ey, em, 1),
                          max_pages |-> mp, urls |-> None]) :
                        sy \in Years, sm \in 1..12, ey \in Years, em \in 1..12,
                        mp \in 0..MaxPages}

F == The(fiction)

\* line 103: urls = generate_urls(args.start_date, args.end_date, args.max_pages)
CallGenerateUrls ==
    /\ fiction # None
    /\ F.urls = None
    /\ fiction' = Some([F EXCEPT !.urls =
                           Some(generate_urls(F.start_date, F.end_date,
                                              F.max_pages))])
    /\ UNCHANGED <<experiment, llm, html, csv, osf, nyt>>

NextFiction == CallGenerateUrls

SpecFiction == InitFiction /\ [][NextFiction]_vars

\* the calendar months from the month of start to the month of end, counted
\* from January of year 0
MonthNumber(date) == 12 * int(split(date)[1]) + int(split(date)[2]) - 1

MonthsOfRange(start_date, end_date) ==
    range(MonthNumber(start_date), MonthNumber(end_date) + 1)

(* C26: generate_urls(start_date, end_date, max_pages) emits, for every    *)
(* calendar month from that of start_date to that of end_date inclusive,   *)
(* each once and in chronological order, one URL for each page             *)
(* 1..max_pages.                                                           *)
C26_UrlsCoverEveryMonthAndPage ==
    (fiction # None /\ F.urls # None) =>
        LET urls == The(F.urls)
            ms == MonthsOfRange(F.start_date, F.end_date)
        IN /\ Len(urls) = Len(ms) * F.max_pages
           /\ \A i \in 1..Len(ms) : \A pg \in 1..F.max_pages :
                  urls[(i - 1) * F.max_pages + pg]
                      = Url(months[(ms[i] % 12) + 1], ms[i] \div 12, pg)

----------------------------------------------------------------------------
(* A second call of run_experiments on the same object.  The first call    *)
(* has returned; what it returned, and the number of draws made up to its  *)
(* return, are remembered in `first`.  The generator is the module-level   *)
(* one the constructor seeded; run_experiments has no call of random.seed. *)

\* a run_experiments that would seed the generator on entry
run_experiments_again_reseeding ==
    /\ pc = "returned"
    /\ first = None
    /\ first' = Some([exp |-> self, ret |-> ret, calls |-> calls,
                      draws |-> draws])
    /\ pc' = "running"
    /\ rng' = seed_state(self.seed)
    /\ draws' = 0
    /\ results' = <<>>
    /\ outer' = 0
    /\ inner' = 0
    /\ prompt' = None
    /\ calls' = <<>>
    /\ ret' = None
    /\ err' = ""
    /\ UNCHANGED <<exp, producer, flat_args, flat_result, gen, other,
                   scripts>>

\* lines 61-64: run_experiments is entered a second time: results = []
run_experiments_again ==
    /\ pc = "returned"
    /\ first = None
    /\ first' = Some([exp |-> self, ret |-> ret, calls |-> calls,
                      draws |-> draws])
    /\ pc' = "running"
    /\ results' = <<>>
    /\ outer' = 0
    /\ inner' = 0
    /\ prompt' = None
    /\ calls' = <<>>
    /\ ret' = None
    /\ err' = ""
    /\ UNCHANGED <<rng, exp, producer, draws, flat_args, flat_result, gen,
                   other, scripts>>

NextAgain == Next \/ run_experiments_again

SpecAgain == InitGenerate /\ [][NextAgain]_vars

\* the second call was made
CalledAgain == exp # None /\ first # None /\ pc \in {"running", "returned"}

(* C27: the seed is applied only at construction: run_experiments never    *)
(* reseeds.  Entering run_experiments, the first time or the second,       *)
(* leaves the generator where it stood, the stream always stands `draws`   *)
(* steps after the seed of the constructor, and the bindings of a second   *)
(* call on the same object are the draws that follow those of the first    *)
(* call, in every mode that draws.                                         *)
C27_SecondCallContinuesTheStream ==
    /\ [][(pc # "running" /\ pc' = "running") => rng' = rng]_vars
    /\ [](exp # None => rng = StateAfter(seed_state(self.seed), draws))
    /\ [](CalledAgain =>
            LET np == Len(PSpace)
                nh == Len(HSpace)
                base == The(first).draws
            IN /\ Modes2("monte_carlo", "monte_carlo") =>
                     /\ draws = base + Len(results) * (np + nh)
                     /\ \A k \in 1..Len(results) :
                           /\ DrawnInOrder(results[k], "param_", PSpace,
                                           base + (k - 1) * (np + nh))
                           /\ DrawnInOrder(results[k], "hyper_", HSpace,
                                           base + (k - 1) * (np + nh) + np)
               /\ Modes2("factorial", "monte_carlo") =>
                     /\ draws = base + Len(results) * nh
                     /\ \A k \in 1..Len(results) :
                           DrawnInOrder(results[k], "hyper_", HSpace,
                                        base + (k - 1) * nh)
               /\ Modes2("monte_carlo", "factorial") =>
                     /\ draws = base + Len(results) * np
                     /\ \A k \in 1..Len(results) :
                           DrawnInOrder(results[k], "param_", PSpace,
                                        base + (k - 1) * np))

\* a second call in a mode that draws has returned, after a first call that
\* drew, and its records are not those of the first call
C27_Witness ==
    /\ CalledAgain
    /\ pc = "returned"
    /\ SamplesN
    /\ The(first).draws > 0
    /\ draws > The(first).draws
    /\ Len(Returned) = Len(The(The(first).ret))
    /\ Returned # The(The(first).ret)

----------------------------------------------------------------------------
KnownModes == {"monte_carlo", "factorial"}

\* one of the two modes of the experiment is not a mode the class knows
OtherMode ==
    /\ exp # None
    /\ (self.prompt_mode \notin KnownModes \/ self.hyper_mode \notin KnownModes)

\* the mode attribute a list builder looks at
ModeOf(method) == IF method = "generate_prompts" THEN self.prompt_mode
                  ELSE self.hyper_mode

(* C28: when prompt_mode or hyper_mode is a string other than              *)
(* 'monte_carlo' and 'factorial', the experiment is constructed all the    *)
(* same, and run_experiments returns an empty list: it does not raise, it  *)
(* makes no call to the response producer and it draws nothing from the    *)
(* random stream.  generate_prompts, and generate_hyperparameters, called  *)
(* on a mode that is such a string returns None, without raising and       *)
(* without drawing.                                                        *)
C28_OtherModeRunsEmpty ==
    /\ [](OtherMode => /\ pc \in {"ready", "running", "returned"}
                       /\ results = <<>>
                       /\ calls = <<>>
                       /\ pc = "returned" => ret = Some(<<>>))
    /\ [][(OtherMode /\ pc = "running") =>
              (pc' = "returned" /\ rng' = rng /\ draws' = draws)]_vars
    /\ [](exp # None =>
            \A k \in 1..Len(gen) :
                ModeOf(gen[k].method) \notin KnownModes =>
                    (gen[k].err = "" /\ gen[k].value = None))
    /\ [][(exp # None /\ Len(gen') > Len(gen)
            /\ ModeOf(gen'[Len(gen')].method) \notin KnownModes) =>
              (rng' = rng /\ draws' = draws)]_vars

\* an experiment whose prompt mode is 'grid' and whose hyperparameter mode
\* is monte_carlo with N = 2 over non-empty spaces: generate_prompts gave
\* None, generate_hyperparameters drew its two bindings, and the run
\* returned the empty list
C28_Witness ==
    /\ OtherMode
    /\ self.prompt_mode = "grid"
    /\ self.hyper_mode = "monte_carlo"
    /\ self.N = 2
    /\ Cardinal(PSpace) >= 2
    /\ Cardinal(HSpace) >= 2
    /\ pc = "returned"
    /\ ret = Some(<<>>)
    /\ \E k \in 1..Len(gen) :
          gen[k].method = "generate_prompts" /\ gen[k].value = None
    /\ \E k \in 1..Len(gen) :
          gen[k].method = "generate_hyperparameters" /\ gen[k].value # None

----------------------------------------------------------------------------
(* fetch_osf_preprints.py: get_preprints(provider, start_date, end_date,   *)
(* max_results_per_month).                                                 *)
(*                                                                         *)
(* A date is the number of its day in a year of 365 days (1 is January 1). *)
(* The API answers a request with a status, a page of preprints and a link *)
(* to the next page or None.  A preprint of a page is "new" (its id is not *)
(* in results and it parses), "duplicate" (its id is in results) or        *)
(* "broken" (parse_osf_preprint raises on it).                             *)

DaysInMonth == <<31, 28, 31, 30, 31, 30, 31, 31, 30, 31, 30, 31>>

RECURSIVE DaysBefore(_)
DaysBefore(month) ==
    IF month <= 1 THEN 0 ELSE DaysBefore(month - 1) + DaysInMonth[month - 1]

\* datetime(year, month, day)
Date(month, day) == DaysBefore(month) + day

\* date.month, date.day
MonthOf(date) ==
    CHOOSE m \in 1..12 : DaysBefore(m) < date /\ date <= DaysBefore(m) + DaysInMonth[m]

DayOf(date) == date - DaysBefore(MonthOf(date))

\* any_day.replace(day=d)
replace_day(date, d) == date - DayOf(date) + d

\* lines 95-97
last_day_of_month(any_day) ==
    LET next_month == replace_day(any_day, 28) + 4
    IN next_month - DayOf(next_month)

min(a, b) == IF b < a THEN b ELSE a

PreprintKinds == {"new", "duplicate", "broken"}

Pages == UNION {[1..n -> PreprintKinds] : n \in 0..MaxItems}

\* lines 71-82 with the test of lines 80-82 left out: the whole page is added
RECURSIVE for_preprint_in_data_whole_page(_, _, _)
for_preprint_in_data_whole_page(data, monthly_results, cap) ==
    IF data = <<>> THEN 0
    ELSE LET added == IF Head(data) = "new" THEN 1 ELSE 0
         IN added + for_preprint_in_data_whole_page(Tail(data),
                                                    monthly_results + added, cap)

\* lines 71-82: the number of preprints of the page appended to results
RECURSIVE for_preprint_in_data(_, _, _)
for_preprint_in_data(data, monthly_results, cap) ==
    IF data = <<>> THEN 0
    ELSE IF Head(data) # "new"
    THEN for_preprint_in_data(Tail(data), monthly_results, cap)
    ELSE IF monthly_results + 1 >= cap THEN 1
    ELSE 1 + for_preprint_in_data(Tail(data), monthly_results + 1, cap)

OsfDates ==
    {Date(m, d) : m \in 1..MaxMonths, d \in {1, 15}}
        \cup {Date(m, DaysInMonth[m]) : m \in 1..MaxMonths}

InitOSF ==
    /\ NoExperiment
    /\ llm = None /\ html = None /\ csv = None /\ fiction = None /\ nyt = None
    /\ osf \in {Some([start_date |-> sd, end_date |-> ed,
                      max_results_per_month |-> cap,
                      pc |-> "while month",
                      current_month_start |-> sd,
                      current_month_end |-> sd,
                      page |-> 0,
                      monthly_results |-> 0,
                      results |-> 0,
                      months |-> <<>>,
                      last |-> None]) :
                    sd \in OsfDates, ed \in OsfDates, cap \in 0..MaxCap}

O == The(osf)

OsfStep(new) ==
    /\ osf' = Some(new)
    /\ UNCHANGED <<experiment, llm, html, csv, fiction, nyt>>

\* lines 51-56: the month loop is entered for the month of current_month_start
EnterMonth ==
    /\ osf # None
    /\ O.pc = "while month"
    /\ O.current_month_start < O.end_date
    /\ OsfStep([O EXCEPT
           !.pc = "while page",
           !.current_month_end =
               min(last_day_of_month(O.current_month_start), O.end_date),
           !.page = 1,
           !.monthly_results = 0,
           !.last = None,
           !.months = Append(@, [start |-> O.current_month_start,
                                 pages |-> 0, added |-> 0])])

\* line 90, reached from the page loop
MonthDone(o) ==
    [o EXCEPT !.pc = "while month",
              !.current_month_start = o.current_month_end + 1]

\* lines 58-88: one request of the page loop and what is done with its answer
RequestPage(status, data, next_page) ==
    /\ osf # None
    /\ O.pc = "while page"
    /\ O.monthly_results < O.max_results_per_month
    /\ O.page >= MaxApiPages => next_page = None
    /\ "duplicate" \in Range(data) => O.results > 0
    /\ LET k == Len(O.months)
           asked == [O EXCEPT !.months[k].pages = @ + 1,
                              !.last = Some([status |-> status,
                                             next |-> next_page])]
           added == for_preprint_in_data(data, O.monthly_results,
                                         O.max_results_per_month)
           got == [asked EXCEPT !.results = @ + added,
                                !.monthly_results = @ + added,
                                !.months[k].added = @ + added]
       IN IF status # 200
          THEN OsfStep([asked EXCEPT !.pc = "returned status"])
          ELSE IF next_page = None
                  \/ got.monthly_results >= got.max_results_per_month
          THEN OsfStep(MonthDone(got))
          ELSE OsfStep([got EXCEPT !.page = @ + 1])

\* line 58 false on entry: max_results_per_month is not positive
NoPage ==
    /\ osf # None
    /\ O.pc = "while page"
    /\ ~(O.monthly_results < O.max_results_per_month)
    /\ OsfStep(MonthDone(O))

\* lines 51, 92-93: the range is exhausted
ReturnPreprints ==
    /\ osf # None
    /\ O.pc = "while month"
    /\ ~(O.current_month_start < O.end_date)
    /\ OsfStep([O EXCEPT !.pc = "returned"])

NextOSF ==
    \/ EnterMonth
    \/ \E status \in {200, 503}, data \in Pages, next_page \in {None, Some("next")} :
          RequestPage(status, data, next_page)
    \/ NoPage
    \/ ReturnPreprints

SpecOSF == InitOSF /\ [][NextOSF]_vars

\* the answer to the last request of the current month
Answer == The(O.last)

(* C29: in get_preprints the number of preprints added to the results for  *)
(* a month never exceeds max_results_per_month, whatever pages the API     *)
(* returns.  After a page that is answered with status 200, paging for     *)
(* the month stops if the cap is reached or the answer has no next page,   *)
(* and goes on to the next page otherwise; when it stops the month loop    *)
(* moves to the day after the end of the month, and it enters a month as   *)
(* long as that day is before end_date and returns when it is not.         *)
C29_MonthlyCapAndPaging ==
    /\ [](osf # None =>
            /\ O.monthly_results <= O.max_results_per_month
            /\ \A k \in 1..Len(O.months) :
                  O.months[k].added <= O.max_results_per_month
            /\ O.pc = "returned" => O.current_month_start >= O.end_date)
    /\ [][(osf # None /\ O.pc = "while page" /\ osf' # None
            /\ The(osf').last # None /\ The(The(osf').last).status = 200
            /\ Len(The(osf').months) = Len(O.months)
            /\ The(osf').months[Len(O.months)].pages > O.months[Len(O.months)].pages)
           =>
           LET o == The(osf')
               stop == \/ The(o.last).next = None
                       \/ o.monthly_results >= o.max_results_per_month
           IN IF stop
              THEN /\ o.pc = "while month"
                   /\ o.current_month_start = O.current_month_end + 1
                   /\ MonthOf(O.current_month_end) = MonthOf(O.current_month_start)
              ELSE /\ o.pc = "while page"
                   /\ o.page = O.page + 1]_vars
    /\ [][(osf # None /\ O.pc = "while month") =>
              IF O.current_month_start < O.end_date
              THEN /\ The(osf').pc = "while page"
                   /\ The(osf').current_month_start = O.current_month_start
              ELSE The(osf').pc = "returned"]_vars

\* get_preprints returned after two months: paging of the first stopped at
\* the cap although the API had a next page, paging of the second stopped
\* at the last page below the cap
C29_Witness ==
    /\ osf # None
    /\ O.pc = "returned"
    /\ O.max_results_per_month = 2
    /\ Len(O.months) = 2
    /\ O.months[1].added = 2
    /\ O.months[2].added = 1
    /\ O.months[2].pages = 2
    /\ Answer.next = None

----------------------------------------------------------------------------
(* fetch_nyt_opeds.py: get_nyt_headlines(api_key, start_date, end_date).   *)
(*                                                                         *)
(* A date is a datetime at midnight: year, month and day.  The archive     *)
(* API answers the request for a month with a status and, with status      *)
(* 200, the documents of the month, each an Op-Ed or something else.       *)

datetime(year, month, day) == [year |-> year, month |-> month, day |-> day]

\* a <= b on datetimes
NotAfter(a, b) ==
    \/ a.year < b.year
    \/ a.year = b.year /\ a.month < b.month
    \/ a.year = b.year /\ a.month = b.month /\ a.day <= b.day

\* the dates of the command line: the first and the 15th of the months from
\* December of the first year on
NytDates ==
    {datetime(FirstYear + (m \div 12), (m % 12) + 1, d) :
        m \in 11..(10 + MaxMonths), d \in {1, 15}}

Materials == {"Op-Ed", "News"}

Docs == UNION {[1..n -> Materials] : n \in 0..MaxItems}

InitNYT ==
    /\ NoExperiment
    /\ llm = None /\ html = None /\ csv = None /\ fiction = None /\ osf = None
    /\ nyt \in {Some([start_date |-> sd, end_date |-> ed,
                      pc |-> "while",
                      current_date |-> sd,
                      results |-> <<>>,
                      requests |-> <<>>,
                      ret |-> None]) :
                    sd \in NytDates, ed \in NytDates}

Y == The(nyt)

\* lines 66-68: the Op-Eds among the documents of the month, parsed
RECURSIVE op_eds(_, _, _)
op_eds(docs, year, month) ==
    IF docs = <<>> THEN <<>>
    ELSE LET n == Len(docs)
             front == op_eds(SubSeq(docs, 1, n - 1), year, month)
         IN IF docs[n] = "Op-Ed"
            THEN Append(front, [date |-> <<year, month>>, doc |-> n])
            ELSE front

\* lines 71-74
next_month(year, month) ==
    IF month = 12 THEN datetime(year + 1, 1, 1) ELSE datetime(year, month + 1, 1)

\* a loop that gives up at the first failed request
RequestMonth_stopping_on_failure(status, docs) ==
    /\ nyt # None
    /\ Y.pc = "while"
    /\ NotAfter(Y.current_date, Y.end_date)
    /\ status # 200 => docs = <<>>
    /\ LET year == Y.current_date.year
           month == Y.current_date.month
       IN nyt' = Some([Y EXCEPT
              !.requests = Append(@, [year |-> year, month |-> month,
                                      status |-> status]),
              !.results = IF status = 200
                          THEN @ \o op_eds(docs, year, month) ELSE @,
              !.pc = IF status = 200 THEN "while" ELSE "returned",
              !.ret = IF status = 200 THEN None ELSE Some(Y.results),
              !.current_date = next_month(year, month)])
    /\ UNCHANGED <<experiment, llm, html, csv, fiction, osf>>

\* lines 55-74: one iteration of the loop: the request for the month of
\* current_date and what is done with its answer
RequestMonth(status, docs) ==
    /\ nyt # None
    /\ Y.pc = "while"
    /\ NotAfter(Y.current_date, Y.end_date)
    /\ status # 200 => docs = <<>>
    /\ LET year == Y.current_date.year
           month == Y.current_date.month
       IN nyt' = Some([Y EXCEPT
              !.requests = Append(@, [year |-> year, month |-> month,
                                      status |-> status]),
              !.results = IF status = 200
                          THEN @ \o op_eds(docs, year, month) ELSE @,
              !.current_date = next_month(year, month)])
    /\ UNCHANGED <<experiment, llm, html, csv, fiction, osf>>

\* lines 55, 75: return results
ReturnHeadlines ==
    /\ nyt # None
    /\ Y.pc = "while"
    /\ ~NotAfter(Y.current_date, Y.end_date)
    /\ nyt' = Some([Y EXCEPT !.pc = "returned", !.ret = Some(Y.results)])
    /\ UNCHANGED <<experiment, llm, html, csv, fiction, osf>>

Iteration == \E status \in {200, 429}, docs \in Docs : RequestMonth(status, docs)

NextNYT == Iteration \/ ReturnHeadlines

SpecNYT == InitNYT /\ [][NextNYT]_vars

\* every request is answered, and the interpreter runs
SpecNYTFair == SpecNYT /\ WF_vars(NextNYT)

\* the calendar months from the month of date a through the month of date b
MonthsThrough(a, b) ==
    LET ms == range(12 * a.year + a.month - 1, 12 * b.year + b.month)
    IN [k \in 1..Len(ms) |-> [year |-> ms[k] \div 12, month |-> (ms[k] % 12) + 1]]

Requested == [k \in 1..Len(Y.requests) |->
                 [year |-> Y.requests[k].year, month |-> Y.requests[k].month]]

IsPrefix(p, q) == Len(p) <= Len(q) /\ p = SubSeq(q, 1, Len(p))

\* a failed request adds nothing, keeps what was collected and leaves the
\* loop running
FailedRequestIsSkipped ==
    [][(nyt # None /\ Len(The(nyt').requests) > Len(Y.requests)
        /\ The(nyt').requests[Len(The(nyt').requests)].status # 200)
       => (The(nyt').results = Y.results /\ The(nyt').pc = "while")]_vars

MonthsToRequest ==
    IF NotAfter(Y.start_date, Y.end_date)
    THEN MonthsThrough(Y.start_date, Y.end_date) ELSE <<>>

=============================================================================
